---- MODULE Spec2Model ----
(***************************************************************************)
(* A model of the EscalatePlumbing derivation pipeline                     *)
(* (src/escalate_plumber/schema.py, src/escalate_plumber/parser.py).       *)
(*                                                                         *)
(* The module holds one state machine per component; each has its own      *)
(* variables, initial condition and specification, and leaves the other    *)
(* components' variables at their idle values:                             *)
(*   SpecGroup    group_reactions                     (gr_ variables)      *)
(*   SpecClassify classify_column                     (cc_ variables)      *)
(*   SpecParse    record_to_reaction                  (p_  variables)      *)
(*   SpecCollect  collect_reactions                   (cr_ variables)      *)
(*   SpecWF3      WF3Data.from_reaction               (wf_ variables)      *)
(*   SpecHull     SamplerConvexHull.combine / __eq__  (h_  variables)      *)
(*   SpecFold     the accumulation of the hulls       (fold_ variables)    *)
(*   SpecVerify   the forward and backward checks     (vf_ variables)      *)
(*   SpecStage    the grouping stage, run twice       (st_ variables)      *)
(*   SpecReagent  the construction of a Reagent       (rg_ variables)      *)
(*   SpecReagentSet  Reaction.reagent_set             (rs_ variables)      *)
(* Spec is their union: the first step chooses the component that runs.    *)
(***************************************************************************)
EXTENDS Integers, Sequences, FiniteSets, TLC

VARIABLES
    gr_reactions,   \* group_reactions: the `reactions` argument (a list)
    gr_key,         \* group_reactions: the key function, reaction -> key
    gr_result,      \* group_reactions: the returned dict, key -> list
    gr_pc,          \* "idle" | "called" | "returned"
    cc_cname,       \* classify_column: the `cname` argument
    cc_result,      \* classify_column: the returned category, or the exception
    cc_pc,          \* "idle" | "called" | "returned" | "raised"
    p_record,       \* record_to_reaction: the `record` argument (a dict)
    p_ignore,       \* record_to_reaction: the `ignore_absent_outcome` argument
    p_result,       \* record_to_reaction: what the call returned or raised
    p_pc,           \* "idle" | "called" | "returned" | "raised"
    cr_columns,     \* collect_reactions: df.columns, the header of the csv
    cr_record,      \* collect_reactions: the record of the last turn of the loop
    cr_ignore,      \* collect_reactions: the `ignore_absent_outcome` argument
    cr_reactions,   \* collect_reactions: the list `reactions`
    cr_log,         \* collect_reactions: what happened to each record read
    cr_result,      \* collect_reactions: what the last record_to_reaction call did
    cr_pc,          \* "idle" | "loop" | "returned" | "raised"
    wf_reaction,    \* WF3Data.from_reaction: the `reaction` argument
    wf_result,      \* WF3Data.from_reaction: what the call returned or raised
    wf_pc,          \* "idle" | "called" | "returned" | "raised"
    h_sets,         \* SamplerConvexHull: three reagent sets
    h_hulls,        \* SamplerConvexHull: the hulls A, B, C of the reagent sets
    h_out,          \* SamplerConvexHull: the combinations and comparisons
    h_pc,           \* "idle" | "called" | "built" | "raised" | "combined"
    fold_hull,      \* accumulation: ConvexHull, the running sampling space
    fold_before,    \* accumulation: ConvexHull before the last step
    fold_sch,       \* accumulation: sch, the hull of the last header group
    fold_groups,    \* accumulation: the number of header groups folded
    fold_pc,        \* "idle" | "loop" | "raised" | "done"
    vf_reactions,   \* verification: ReactionsValid.values()
    vf_hull,        \* verification: DfHull, the table of the sampling space
    vf_checked,     \* verification: the number of reactions checked
    vf_log,         \* verification: per reaction, the verdicts logged and
                    \* the exception that ended the run
    vf_pc,          \* "idle" | "loop" | "raised" | "done"
    st_orderings,   \* grouping stage: the valid reactions in two orders
    st_run,         \* grouping stage: the order the stage is run on, 1 or 2
    st_done,        \* grouping stage: the number of header groups visited
    st_GroupDict,   \* grouping stage: GroupDict
    st_ConvexHull,  \* grouping stage: ConvexHull
    st_exc,         \* grouping stage: the exception that ended the run
    st_outcomes,    \* grouping stage: the outcome of each finished run
    st_representatives, \* grouping stage: the representative of each group visited
    st_pc,          \* "idle" | "loop" | "raised" | "done"
    rg_table,       \* Reagent: the reagent_material_table argument
    rg_prepare,     \* Reagent: what the caller knows of the preparation volume
    rg_reagent,     \* Reagent: what the constructor returned or raised
    rg_molarity,    \* Reagent: what reading molarity_table returned or raised
    rg_pc,          \* "idle" | "called" | "constructed" | "raised" | "read"
    rs_reagents,    \* Reaction.reagent_set: reagent_table.values()
    rs_set,         \* Reaction.reagent_set: the members of the set returned
    rs_pc           \* "idle" | "called" | "returned"

vars ==
    <<gr_reactions, gr_key, gr_result, gr_pc, cc_cname, cc_result, cc_pc,
      p_record, p_ignore, p_result, p_pc,
      cr_columns, cr_record, cr_ignore, cr_reactions, cr_log, cr_result, cr_pc,
      wf_reaction, wf_result, wf_pc, h_sets, h_hulls, h_out, h_pc,
      fold_hull, fold_before, fold_sch, fold_groups, fold_pc,
      vf_reactions, vf_hull, vf_checked, vf_log, vf_pc,
      st_orderings, st_run, st_done, st_GroupDict, st_ConvexHull, st_exc,
      st_outcomes, st_representatives, st_pc,
      rg_table, rg_prepare, rg_reagent, rg_molarity, rg_pc,
      rs_reagents, rs_set, rs_pc>>

gr_vars == <<gr_reactions, gr_key, gr_result, gr_pc>>
cc_vars == <<cc_cname, cc_result, cc_pc>>
p_vars == <<p_record, p_ignore, p_result, p_pc>>
cr_vars == <<cr_columns, cr_record, cr_ignore, cr_reactions, cr_log, cr_result, cr_pc>>
wf_vars == <<wf_reaction, wf_result, wf_pc>>
h_vars == <<h_sets, h_hulls, h_out, h_pc>>
fold_vars == <<fold_hull, fold_before, fold_sch, fold_groups, fold_pc>>
vf_vars == <<vf_reactions, vf_hull, vf_checked, vf_log, vf_pc>>
rg_vars == <<rg_table, rg_prepare, rg_reagent, rg_molarity, rg_pc>>
rs_vars == <<rs_reagents, rs_set, rs_pc>>
st_vars == <<st_orderings, st_run, st_done, st_GroupDict, st_ConvexHull, st_exc, st_outcomes, st_representatives, st_pc>>

\* The value of a variable that holds nothing yet (Python's None).
None == "None"

(***************************************************************************)
(* Generic helpers                                                         *)
(***************************************************************************)

\* The set of elements of a sequence.
Range(s) == {s[i] : i \in DOMAIN s}

\* Sequences over S of length at most n.
SeqUpTo(S, n) == UNION {[1..k -> S] : k \in 0..n}

\* Number of occurrences of e in the sequence s.
CountIn(e, s) == Cardinality({i \in DOMAIN s : s[i] = e})

(***************************************************************************)
(* group_reactions (schema.py:490-497)                                     *)
(***************************************************************************)

\* Bounds of the grouping model.
NumReactions == 3
NumKeys == 2
MaxLen == 3

\* The reactions a list may hold; a list may hold the same object twice.
ReactionIds == 1..NumReactions

\* The values a key function returns.  Both callers key by a string
\* (experiment_version, experiment_header: plumbing.py:106-109); strings are
\* totally ordered and hashable, which is modelled by integers.
Keys == 1..NumKeys

\* Insert e into the key-sorted list s behind every element whose key is not
\* greater (stability of list.sort).
RECURSIVE InsertByKey(_, _, _)
InsertByKey(e, s, kf) ==
    IF s = <<>> THEN <<e>>
    ELSE IF kf[e] < kf[Head(s)] THEN <<e>> \o s
    ELSE <<Head(s)>> \o InsertByKey(e, Tail(s), kf)

\* A grouping that does not sort first: the list as given.
SortedUnsorted(seq, kf) == seq

\* sorted(reactions, key=key_function): a stable sort by key.
RECURSIVE Sorted(_, _)
Sorted(seq, kf) ==
    IF seq = <<>> THEN <<>>
    ELSE InsertByKey(seq[Len(seq)], Sorted(SubSeq(seq, 1, Len(seq) - 1), kf), kf)

\* itertools.groupby(data, key_function): the maximal runs of consecutive
\* elements with equal key, as a list of [k, g] pairs, in order.
RECURSIVE GroupBy(_, _)
GroupBy(data, kf) ==
    IF data = <<>> THEN <<>>
    ELSE LET rest == GroupBy(Tail(data), kf)
             e == Head(data)
         IN IF rest # <<>> /\ Head(rest).k = kf[e]
            THEN <<[k |-> kf[e], g |-> <<e>> \o Head(rest).g]>> \o Tail(rest)
            ELSE <<[k |-> kf[e], g |-> <<e>>]>> \o rest

\* dict(zip(unique_keys, groups)): a later pair with the same key replaces
\* an earlier one.
DictZip(pairs) ==
    [k \in {pairs[i].k : i \in DOMAIN pairs} |->
        LET last == CHOOSE i \in DOMAIN pairs :
                        /\ pairs[i].k = k
                        /\ \A j \in DOMAIN pairs : pairs[j].k = k => j <= i
        IN pairs[last].g]

\* group_reactions(reactions, key_function).
group_reactions(reactions, kf) == DictZip(GroupBy(Sorted(reactions, kf), kf))

GroupIdle ==
    /\ gr_reactions = <<>>
    /\ gr_key = None
    /\ gr_result = None
    /\ gr_pc = "idle"

GroupCalled ==
    /\ gr_reactions \in SeqUpTo(ReactionIds, MaxLen)
    /\ gr_key \in [ReactionIds -> Keys]
    /\ gr_result = None
    /\ gr_pc = "called"

\* The call returns the dict.
GroupReactions ==
    /\ gr_pc = "called"
    /\ gr_result' = group_reactions(gr_reactions, gr_key)
    /\ gr_pc' = "returned"
    /\ UNCHANGED <<gr_reactions, gr_key>>

(***************************************************************************)
(* classify_column and is_column_useless (parser.py:154-189, 208-236)      *)
(*                                                                         *)
(* Column names are strings; the string tests are Python's str methods.    *)
(***************************************************************************)

\* cname.startswith(p)
StartsWith(s, p) == Len(s) >= Len(p) /\ SubSeq(s, 1, Len(p)) = p

\* cname.endswith(p)
EndsWith(s, p) == Len(s) >= Len(p) /\ SubSeq(s, Len(s) - Len(p) + 1, Len(s)) = p

\* sub in cname
Contains(s, sub) ==
    \E i \in 1..(Len(s) - Len(sub) + 1) : SubSeq(s, i, i + Len(sub) - 1) = sub

\* cname.count(ch) for a one-character ch
Count(s, ch) == Cardinality({i \in 1..Len(s) : SubSeq(s, i, i) = ch})

\* str.lower() of one character.
LowerChar(c) ==
    CASE c = "A" -> "a" [] c = "B" -> "b" [] c = "C" -> "c" [] c = "D" -> "d"
      [] c = "E" -> "e" [] c = "F" -> "f" [] c = "G" -> "g" [] c = "H" -> "h"
      [] c = "I" -> "i" [] c = "J" -> "j" [] c = "K" -> "k" [] c = "L" -> "l"
      [] c = "M" -> "m" [] c = "N" -> "n" [] c = "O" -> "o" [] c = "P" -> "p"
      [] c = "Q" -> "q" [] c = "R" -> "r" [] c = "S" -> "s" [] c = "T" -> "t"
      [] c = "U" -> "u" [] c = "V" -> "v" [] c = "W" -> "w" [] c = "X" -> "x"
      [] c = "Y" -> "y" [] c = "Z" -> "z" [] OTHER -> c

\* cname.lower()
RECURSIVE Lower(_)
Lower(s) ==
    IF Len(s) = 0 THEN ""
    ELSE LowerChar(SubSeq(s, 1, 1)) \o Lower(SubSeq(s, 2, Len(s)))

target_column == "_out_crystalscore"

COL_TARGET == "target"
COL_NAME == "name"
COL_USELESS == "useless"
COL_FEATURE == "feature"
COL_CALCULATE == "calculate"
COL_REAGENT == "reagent"
COL_REACTION == "reaction"
COL_RAW_MMOL_INCHI_KEY == "raw_mmol_inchi_key"
COL_RAW_MOLARITY_INCHI_KEY == "raw_molarity_inchi_key"
COL_RAW_INCHIKEY_CATEGORY == "raw_inchikey_type"
COL_RAW_OTHER == "raw_other"

\* The categories classify_column can return.
ColumnCategories ==
    {COL_TARGET, COL_NAME, COL_USELESS, COL_FEATURE, COL_CALCULATE, COL_REAGENT,
     COL_REACTION, COL_RAW_MMOL_INCHI_KEY, COL_RAW_MOLARITY_INCHI_KEY,
     COL_RAW_INCHIKEY_CATEGORY, COL_RAW_OTHER}

\* The exceptions of the model, by class name.
ValueError == "ValueError"
KeyError == "KeyError"
AttributeError == "AttributeError"
TypeError == "TypeError"
AssertionError == "AssertionError"
ZeroDivisionError == "ZeroDivisionError"
ReactionParserError == "ReactionParserError"

useless_columns ==
    {"_raw_challengeproblem", "_raw_genver", "_raw_user_generated_experimentname",
     "_raw_batch_count", "_raw_datecreated", "_raw_jobserial", "dataset",
     "_raw_lab", "_raw_labwareid", "_raw_operator", "_raw_modelname",
     "_raw_notes", "_raw_vialsite", "_raw_timecreated_utc",
     "_raw_participantname"}

is_column_useless(cname) ==
    \/ cname \in useless_columns
    \/ Contains(cname, "nominal_amount")
    \/ EndsWith(cname, "_date")

\* The last branch without the raw_other category: every name that reaches
\* it raises.
RawOtherAlwaysRaises(cname) == ValueError

\* The last branch asking for the prefix "_raw_" instead of "_raw".
RawOtherUnderscore(cname) ==
    IF StartsWith(cname, "_raw_") THEN COL_RAW_OTHER ELSE ValueError

\* The last branch of classify_column and the raise behind it
\* (parser.py:186-189).
RawOtherOrRaise(cname) ==
    IF StartsWith(cname, "_raw") THEN COL_RAW_OTHER ELSE ValueError

\* classify_column(cname): the category, or ValueError when it raises.
classify_column(cname) ==
    IF cname = target_column THEN COL_TARGET
    ELSE IF cname = "name" THEN COL_NAME
    ELSE IF is_column_useless(cname) THEN COL_USELESS
    ELSE IF StartsWith(cname, "_feat") THEN COL_FEATURE
    ELSE IF StartsWith(cname, "_calc") THEN COL_CALCULATE
    ELSE IF StartsWith(cname, "_raw_reagent") THEN COL_REAGENT
    ELSE IF StartsWith(cname, "_rxn") /\ ~EndsWith(cname, "-inchikey")
         THEN COL_REACTION
    ELSE IF StartsWith(cname, "_raw_mmol") /\ Count(cname, "-") = 2
         THEN COL_RAW_MMOL_INCHI_KEY
    ELSE IF StartsWith(cname, "_raw_molarity") /\ Count(cname, "-") = 2
         THEN COL_RAW_MOLARITY_INCHI_KEY
    ELSE IF \/ StartsWith(cname, "_raw") /\ EndsWith(Lower(cname), "inchikey")
            \/ cname = "_rxn_organic-inchikey"
         THEN COL_RAW_INCHIKEY_CATEGORY
    ELSE RawOtherOrRaise(cname)

\* Bound of the classifier model: a column name is made of at most this
\* many fragments.
MaxFragments == 3

\* The pieces column names are made of: the prefixes, infixes and suffixes
\* the classifier tests, an inchikey-shaped token, and whole literal names.
Fragments ==
    {"_raw", "_rxn", "_feat", "_calc", "_reagent", "_mmol", "_molarity",
     "_AB-CD-E", "_inchikey", "_InChIKey", "_organic-inchikey", "_date",
     "_nominal_amount", "_lab", "name", "_out_crystalscore"}

RECURSIVE NamesOf(_)
NamesOf(n) ==
    IF n = 0 THEN {""}
    ELSE LET shorter == NamesOf(n - 1)
         IN shorter \cup {a \o f : a \in shorter, f \in Fragments}

\* The column names the classifier is called with.
ColumnNames == NamesOf(MaxFragments) \ {""}

ClassifyIdle ==
    /\ cc_cname = None
    /\ cc_result = None
    /\ cc_pc = "idle"

ClassifyCalled ==
    /\ cc_cname \in ColumnNames
    /\ cc_result = None
    /\ cc_pc = "called"

\* The call returns a category or raises ValueError.
ClassifyColumn ==
    /\ cc_pc = "called"
    /\ cc_result' = classify_column(cc_cname)
    /\ cc_pc' = IF classify_column(cc_cname) = ValueError THEN "raised" ELSE "returned"
    /\ UNCHANGED cc_cname


(***************************************************************************)
(* Numbers and raw values                                                  *)
(*                                                                         *)
(* Python's floats are modelled by exact rationals <<n, d>> in lowest      *)
(* terms with d > 0; a raw value of a record (a cell of the csv) is a      *)
(* number, a string or the missing value NaN.                              *)
(***************************************************************************)

Abs(x) == IF x < 0 THEN -x ELSE x

RECURSIVE GCD(_, _)
GCD(a, b) == IF b = 0 THEN a ELSE GCD(b, a % b)

\* The rational n/d (d # 0) in lowest terms.
Rat(n, d) ==
    LET g == GCD(Abs(n), Abs(d))
        s == IF d < 0 THEN -1 ELSE 1
    IN <<(s * n) \div g, Abs(d) \div g>>

\* The arithmetic divides by common factors before it multiplies, which
\* keeps the intermediate integers small.
RAdd(a, b) ==
    LET g == GCD(a[2], b[2])
    IN Rat(a[1] * (b[2] \div g) + b[1] * (a[2] \div g), (a[2] \div g) * b[2])
RSub(a, b) == RAdd(a, <<-b[1], b[2]>>)
RMul(a, b) ==
    LET g == GCD(Abs(a[1]), b[2])
        h == GCD(Abs(b[1]), a[2])
    IN Rat((a[1] \div g) * (b[1] \div h), (a[2] \div h) * (b[2] \div g))
RDiv(a, b) == RMul(a, IF b[1] < 0 THEN <<-b[2], -b[1]>> ELSE <<b[2], b[1]>>)
RLt(a, b) == a[1] * b[2] < b[1] * a[2]
RGt(a, b) == RLt(b, a)
RAbs(a) == <<Abs(a[1]), a[2]>>
RZero == <<0, 1>>

\* int(x) of a float: truncation toward zero.
RTrunc(a) == IF a[1] >= 0 THEN a[1] \div a[2] ELSE -((-a[1]) \div a[2])

\* The float literals of the source.
Float_1e_3 == Rat(1, 1000)
Float_1e_5 == Rat(1, 100000)
Float_1e_6 == Rat(1, 1000000)
Float_500e_6 == Rat(500, 1000000)
Float_minus_273_15 == Rat(-27315, 100)

Num(q) == [t |-> "num", q |-> q, s |-> ""]
Str(s) == [t |-> "str", q |-> RZero, s |-> s]
NaN == [t |-> "nan", q |-> RZero, s |-> ""]

\* pd.isna(v)
isna(v) == v.t = "nan"

\* A result of a call: the exception it raised (None when it returned) and
\* the value it returned.
Raise(e) == [exc |-> e, val |-> None]
Return(v) == [exc |-> None, val |-> v]

\* str.upper() of one character.
UpperChar(c) ==
    CASE c = "a" -> "A" [] c = "b" -> "B" [] c = "c" -> "C" [] c = "d" -> "D"
      [] c = "e" -> "E" [] c = "f" -> "F" [] c = "g" -> "G" [] c = "h" -> "H"
      [] c = "i" -> "I" [] c = "j" -> "J" [] c = "k" -> "K" [] c = "l" -> "L"
      [] c = "m" -> "M" [] c = "n" -> "N" [] c = "o" -> "O" [] c = "p" -> "P"
      [] c = "q" -> "Q" [] c = "r" -> "R" [] c = "s" -> "S" [] c = "t" -> "T"
      [] c = "u" -> "U" [] c = "v" -> "V" [] c = "w" -> "W" [] c = "x" -> "X"
      [] c = "y" -> "Y" [] c = "z" -> "Z" [] OTHER -> c

\* str.upper()
RECURSIVE Upper(_)
Upper(s) ==
    IF Len(s) = 0 THEN ""
    ELSE UpperChar(SubSeq(s, 1, 1)) \o Upper(SubSeq(s, 2, Len(s)))

\* k.split("_"): the list of words between underscores.
RECURSIVE Split(_)
Split(s) ==
    IF \A i \in 1..Len(s) : SubSeq(s, i, i) # "_" THEN <<s>>
    ELSE LET p == CHOOSE i \in 1..Len(s) :
                      /\ SubSeq(s, i, i) = "_"
                      /\ \A j \in 1..(i - 1) : SubSeq(s, j, j) # "_"
         IN <<SubSeq(s, 1, p - 1)>> \o Split(SubSeq(s, p + 1, Len(s)))

(***************************************************************************)
(* Material, ReagentMaterial, Reagent, Reaction (schema.py:16-255)         *)
(***************************************************************************)

EscalateCategories == <<"organic", "inorganic", "solvent", "acid">>

\* Material(...): `obj` is the identity of the Python object.  Material
\* defines __hash__ (by inchikey) but no __eq__, so two Materials are equal
\* only when they are the same object.
Material(obj, inchikey, mw, density, category) ==
    [obj |-> obj, inchikey |-> inchikey, mw |-> mw, density |-> density,
     category |-> category]

\* The inventory the pipeline loads (Material.from_csv): one Material per
\* identifier.
M_ANTI == Material(1, "ANTI-SOLV-N", Rat(100, 1), Rat(2, 1), "solvent")
M_ORG == Material(2, "ORGA-NIC-N", Rat(200, 1), Rat(1, 1), "organic")
M_INORG == Material(3, "INOR-GAN-N", Rat(400, 1), Rat(4, 1), "inorganic")
M_ACID == Material(4, "ACID-FOR-N", Rat(50, 1), Rat(1, 1), "acid")
M_ORG2 == Material(5, "ORGB-NIC-N", Rat(100, 1), Rat(1, 1), "organic")

MaterialInventory == <<M_ANTI, M_ORG, M_INORG, M_ACID, M_ORG2>>

\* Material.select_from(inchikey, mat_list): the first Material with the
\* identifier; ValueError when there is none.
select_from(inchikey, mat_list) ==
    IF \E i \in DOMAIN mat_list : mat_list[i].inchikey = inchikey
    THEN LET first == CHOOSE i \in DOMAIN mat_list :
                          /\ mat_list[i].inchikey = inchikey
                          /\ \A j \in 1..(i - 1) : mat_list[j].inchikey # inchikey
         IN Return(mat_list[first])
    ELSE Raise(ValueError)

\* ReagentMaterial(material, amount, amount_unit): the constructor asserts
\* the unit; amount and amount_unit are raw values.
ReagentMaterialInit(material, amount, amount_unit) ==
    IF amount_unit.t # "str" THEN Raise(AttributeError)
    ELSE IF Lower(amount_unit.s) \notin {"milliliter", "gram"} THEN Raise(AssertionError)
    ELSE Return([material |-> material, amount |-> amount,
                 amount_unit |-> amount_unit.s])

\* The parameters of Reagent.__init__ (besides self).
ReagentInitParams ==
    {"reagent_material_table", "volume_added", "volume_sum", "molarity_table"}

\* Reagent(**kwargs): a keyword that is no parameter is a TypeError; two
\* constituents with the same Material object fail the assertion.  Only
\* the attributes that are read later are kept.
ReagentInit(kwargs) ==
    IF ~(DOMAIN kwargs \subseteq ReagentInitParams) THEN Raise(TypeError)
    ELSE LET table == kwargs["reagent_material_table"]
         IN IF Cardinality(DOMAIN table)
                   # Cardinality({table[j].material : j \in DOMAIN table})
            THEN Raise(AssertionError)
            ELSE Return([reagent_material_table |-> table,
                         volume_added |-> kwargs["volume_added"]])

\* Sum of the rationals f[x] over the finite set S.
RECURSIVE RSum(_, _)
RSum(S, f) ==
    IF S = {} THEN RZero
    ELSE LET x == CHOOSE y \in S : TRUE IN RAdd(f[x], RSum(S \ {x}, f))

\* Reaction.total_volume: the sum of volume_added over the reagents (Liter).
total_volume(reaction) ==
    RSum(DOMAIN reaction.reagent_table,
         [i \in DOMAIN reaction.reagent_table |->
             reaction.reagent_table[i].volume_added])

(***************************************************************************)
(* The record parser (parser.py:35-134, 239-323)                           *)
(*                                                                         *)
(* A record is a dict from column name to raw value: a function whose      *)
(* domain is the set of columns it has; ColumnOrder is the order of the    *)
(* columns in the csv, which is the order the dict is iterated in.         *)
(***************************************************************************)

\* Bounds of the parser model: the reagent slots and the constituent slots
\* per reagent that records fill (the code reads 10 of each).
MaxSlots == 2
MaxRm == 1

ColName == "name"
ColTime == "_rxn_reactiontime_s"
ColTemperature == "_rxn_temperature_c"
experiment_version_column == "_raw_expver"
ColVolume(i) == "_raw_reagent_" \o ToString(i) \o "_volume"
ColPrepare(i) == "_raw_reagent_" \o ToString(i) \o "_instructions_2_volume"
ColPrepareUnit(i) == "_raw_reagent_" \o ToString(i) \o "_instructions_2_volume_units"
ColInchikey(i, j) ==
    "_raw_reagent_" \o ToString(i) \o "_chemicals_" \o ToString(j) \o "_inchikey"
ColAmount(i, j) ==
    "_raw_reagent_" \o ToString(i) \o "_chemicals_" \o ToString(j) \o "_actual_amount"
ColAmountUnit(i, j) ==
    "_raw_reagent_" \o ToString(i) \o "_chemicals_" \o ToString(j)
        \o "_actual_amount_units"
ColMmol(inchikey) == "_raw_mmol_" \o inchikey
ColCategory(category_x) == "_raw_" \o category_x \o "_inchikey"

\* The reagent columns of slot i, and of its constituent j, in csv order.
RECURSIVE RmColumns(_, _)
RmColumns(i, j) ==
    IF j = MaxRm THEN <<>>
    ELSE <<ColInchikey(i, j), ColAmount(i, j), ColAmountUnit(i, j)>>
             \o RmColumns(i, j + 1)

RECURSIVE SlotColumns(_)
SlotColumns(i) ==
    IF i = MaxSlots THEN <<>>
    ELSE <<ColVolume(i), ColPrepare(i), ColPrepareUnit(i)>> \o RmColumns(i, 0)
             \o SlotColumns(i + 1)

\* The columns of the csv, in order.
ColumnOrder ==
    <<ColName, ColTime, ColTemperature, target_column, experiment_version_column,
      ColCategory("organic_0"), ColCategory("solvent_0"),
      ColMmol(M_ORG.inchikey), ColMmol(M_ANTI.inchikey)>> \o SlotColumns(0)

\* list(record.keys()): the columns of the record, in order.
KeysOf(record) == SelectSeq(ColumnOrder, LAMBDA k : k \in DOMAIN record)

\* The category of every column (classify_column is pure).
ColumnClass == [k \in Range(ColumnOrder) |-> classify_column(k)]

\* get_subrecords(record, keys): ValueError when classify_column raises for
\* a key; else the sub-dict of every category.
get_subrecords(record, keys) ==
    IF \E n \in DOMAIN keys : keys[n] \notin DOMAIN record THEN Raise(KeyError)
    ELSE IF \E n \in DOMAIN keys : ColumnClass[keys[n]] = ValueError
    THEN Raise(ValueError)
    ELSE LET sub(cls) ==
                 [k \in {keys[n] : n \in {m \in DOMAIN keys : ColumnClass[keys[m]] = cls}}
                     |-> record[k]]
         IN Return([reagent_record |-> sub(COL_REAGENT),
                    reaction_record |-> sub(COL_REACTION),
                    feature_record |-> sub(COL_FEATURE),
                    inchikey_category_record |-> sub(COL_RAW_INCHIKEY_CATEGORY),
                    mmol_record |-> sub(COL_RAW_MMOL_INCHI_KEY)])

\* re.sub(r"^_raw_", "", s) and re.sub(r"_inchikey$", "", s)
StripPrefix(s, p) == IF StartsWith(s, p) THEN SubSeq(s, Len(p) + 1, Len(s)) ELSE s
StripSuffix(s, p) == IF EndsWith(s, p) THEN SubSeq(s, 1, Len(s) - Len(p)) ELSE s

\* The category token of an inchikey-category column (parser.py:60-65).
CategoryX(k) ==
    LET kk == IF k = "_rxn_organic-inchikey" THEN "_raw_organic_0_inchikey"
              ELSE Lower(k)
    IN StripSuffix(StripPrefix(kk, "_raw_"), "_inchikey")

\* get_category_x_to_inchikey(inchi_key_type_record): the columns of the
\* model have distinct category tokens, so no entry replaces another.
get_category_x_to_inchikey(rec) ==
    LET used == {k \in DOMAIN rec : ~isna(rec[k]) /\ rec[k].t = "str"}
    IN [c \in {CategoryX(k) : k \in used} |->
           Upper(rec[CHOOSE k \in used : CategoryX(k) = c].s)]

\* Lines 81-86: the dispensed volume of slot i.  "skip" is `continue`.
SlotVolume(rr, i) ==
    IF ColVolume(i) \notin DOMAIN rr THEN [tag |-> "skip", v |-> RZero]
    ELSE LET v == rr[ColVolume(i)]
         IN IF isna(v) THEN [tag |-> "skip", v |-> RZero]
            ELSE IF v.t = "str" THEN [tag |-> TypeError, v |-> RZero]
            ELSE IF ~RGt(v.q, Float_1e_6) THEN [tag |-> "skip", v |-> RZero]
            ELSE [tag |-> "ok", v |-> v.q]

\* Lines 88-96 and 124-126: the preparation volume of slot i, None when the
\* pair is not complete.
SlotPrepare(rr, i) ==
    IF ColPrepare(i) \notin DOMAIN rr \/ ColPrepareUnit(i) \notin DOMAIN rr
    THEN Return(None)
    ELSE LET p == rr[ColPrepare(i)]
             u == rr[ColPrepareUnit(i)]
         IN IF isna(p) THEN Return(None)
            ELSE IF p.t = "str" THEN Raise(TypeError)
            ELSE IF ~RGt(p.q, Float_1e_6) \/ isna(u) THEN Return(None)
            ELSE IF u = Str("milliliter") THEN Return(RMul(p.q, Float_1e_3))
            ELSE Return(p.q)

\* Lines 98-119: the constituents of slot i from index j on, added to acc.
RECURSIVE RmLoop(_, _, _, _, _)
RmLoop(rr, inventory, i, j, acc) ==
    IF j = MaxRm THEN Return(acc)
    ELSE IF \/ ColInchikey(i, j) \notin DOMAIN rr
            \/ ColAmount(i, j) \notin DOMAIN rr
            \/ ColAmountUnit(i, j) \notin DOMAIN rr
         THEN RmLoop(rr, inventory, i, j + 1, acc)
    ELSE IF \/ isna(rr[ColInchikey(i, j)])
            \/ isna(rr[ColAmount(i, j)])
            \/ isna(rr[ColAmountUnit(i, j)])
         THEN RmLoop(rr, inventory, i, j + 1, acc)
    ELSE LET mat == select_from(rr[ColInchikey(i, j)].s, inventory)
         IN IF rr[ColInchikey(i, j)].t # "str" THEN Raise(ValueError)
            ELSE IF mat.exc # None THEN mat
            ELSE LET rm == ReagentMaterialInit(mat.val, rr[ColAmount(i, j)],
                                               rr[ColAmountUnit(i, j)])
                 IN IF rm.exc # None THEN rm
                    ELSE RmLoop(rr, inventory, i, j + 1,
                                [k \in DOMAIN acc \cup {j} |->
                                    IF k = j THEN rm.val ELSE acc[k]])

\* The keywords get_reagent_table passes to Reagent (parser.py:128-132).
ReagentKwargs(rm_dict, reagent_volume, reagent_volume_prepare) ==
    [kw \in {"reagent_material_table", "volume_added", "volume_prepare"} |->
        CASE kw = "reagent_material_table" -> rm_dict
          [] kw = "volume_added" -> RMul(reagent_volume, Float_1e_6)
          [] kw = "volume_prepare" -> reagent_volume_prepare]

\* The body of the loop over the reagent slots, from slot i on.
RECURSIVE ReagentLoop(_, _, _, _)
ReagentLoop(rr, inventory, i, reagent_dict) ==
    IF i = MaxSlots THEN Return(reagent_dict)
    ELSE LET vol == SlotVolume(rr, i)
             prep == SlotPrepare(rr, i)
             rms == RmLoop(rr, inventory, i, 0, <<>>)
         IN IF vol.tag = "skip" THEN ReagentLoop(rr, inventory, i + 1, reagent_dict)
            ELSE IF vol.tag # "ok" THEN Raise(vol.tag)
            ELSE IF prep.exc # None THEN prep
            ELSE IF rms.exc # None THEN rms
            ELSE IF DOMAIN rms.val = {} THEN ReagentLoop(rr, inventory, i + 1, reagent_dict)
            ELSE LET reagent == ReagentInit(ReagentKwargs(rms.val, vol.v, prep.val))
                 IN IF reagent.exc # None THEN reagent
                    ELSE ReagentLoop(rr, inventory, i + 1,
                                     [k \in DOMAIN reagent_dict \cup {i} |->
                                         IF k = i THEN reagent.val ELSE reagent_dict[k]])

\* get_reagent_table(reagent_record, inventory)
get_reagent_table(reagent_record, inventory) ==
    ReagentLoop(reagent_record, inventory, 0, <<>>)

\* mmol_data[k] += mmol on floats: NaN absorbs.
VAdd(a, b) == IF isna(a) \/ isna(b) THEN NaN ELSE Num(RAdd(a.q, b.q))

\* Lines 254-266: the mole map from the `_raw_mmol_<inchikey>` columns, from
\* the n-th key on.
RECURSIVE MmolLoop(_, _, _, _)
MmolLoop(mmol_record, keys, n, mmol_data) ==
    IF n > Len(keys) THEN Return(mmol_data)
    ELSE LET k == keys[n]
             words == SelectSeq(Split(k), LAMBDA w : Count(w, "-") = 2)
             mmol == mmol_record[k]
             inchi_key == Upper(words[1])
         IN IF Len(words) # 1 THEN Raise(AssertionError)
            ELSE IF mmol.t = "str" THEN Raise(TypeError)
            ELSE IF mmol.t = "num" /\ RLt(mmol.q, Float_1e_5)
                 THEN MmolLoop(mmol_record, keys, n + 1, mmol_data)
            ELSE MmolLoop(mmol_record, keys, n + 1,
                          [x \in DOMAIN mmol_data \cup {inchi_key} |->
                              IF x # inchi_key THEN mmol_data[x]
                              ELSE IF x \in DOMAIN mmol_data
                                   THEN VAdd(mmol_data[x], mmol)
                                   ELSE mmol])

\* Lines 268-275: the reaction time.
ParseTime(record) ==
    IF ColTime \notin DOMAIN record THEN Raise(ReactionParserError)
    ELSE LET v == record[ColTime]
         IN IF isna(v) THEN Raise(ReactionParserError)
            ELSE IF v.t = "str" THEN Raise(TypeError)
            ELSE IF ~RGt(v.q, Float_1e_5) THEN Raise(ReactionParserError)
            ELSE Return(v.q)

\* Lines 277-284: the reaction temperature.
ParseTemperature(record) ==
    IF ColTemperature \notin DOMAIN record THEN Raise(ReactionParserError)
    ELSE LET v == record[ColTemperature]
         IN IF isna(v) THEN Raise(ReactionParserError)
            ELSE IF v.t = "str" THEN Raise(TypeError)
            ELSE IF ~RGt(v.q, Float_minus_273_15) THEN Raise(ReactionParserError)
            ELSE Return(v.q)

\* An outcome that is a Python int, and the outcome None.
IntValue(n) == [t |-> "int", q |-> Rat(n, 1), s |-> ""]
NoneValue == [t |-> "None", q |-> RZero, s |-> ""]

\* Lines 286-295: the outcome.  When a step of the try block fails, the
\* variable keeps what was assigned before: None, NaN or the raw string
\* (the strings of the model are not numerals, so int() raises ValueError).
ParseOutcome(record, ignore_absent_outcome) ==
    LET failed(outcome) ==
            IF ignore_absent_outcome THEN Return(outcome)
            ELSE Raise(ReactionParserError)
    IN IF target_column \notin DOMAIN record THEN failed(NoneValue)
       ELSE LET v == record[target_column]
            IN IF isna(v) THEN failed(v)
               ELSE IF v.t = "str" THEN failed(v)
               ELSE Return(IntValue(RTrunc(v.q)))

\* str(x) of a raw value; the numbers of the model's version column are
\* whole, which print as "<n>.0".
PyStr(v) ==
    CASE v.t = "str" -> v.s
      [] v.t = "nan" -> "nan"
      [] v.t = "num" -> ToString(v.q[1] \div v.q[2]) \o ".0"

\* Lines 297-303: the protocol version.  The lookup is outside the try
\* block, and pd.isna of the string str(...) returns is False.
ParseExpver(record) ==
    IF experiment_version_column \notin DOMAIN record THEN Raise(KeyError)
    ELSE Return(PyStr(record[experiment_version_column]))

\* The threshold test on the total volume (parser.py:321).
VolumeTooSmall(v) == RLt(v, Float_1e_5)

\* record_to_reaction(record, inventory, keys, ignore_absent_outcome): the
\* Reaction, or the exception that leaves the function.  The records of the
\* model have no feature column, so get_inchikey_to_features returns {}.
record_to_reaction(record, inventory, keys, ignore_absent_outcome) ==
    IF ColName \notin DOMAIN record THEN Raise(KeyError)
    ELSE
    LET ks == IF keys = None THEN KeysOf(record) ELSE keys
        subs == get_subrecords(record, ks)
        category_x_to_inchikey ==
            get_category_x_to_inchikey(subs.val.inchikey_category_record)
        inchikeys == {category_x_to_inchikey[c] : c \in DOMAIN category_x_to_inchikey}
        reagent_table == get_reagent_table(subs.val.reagent_record, inventory)
        mmol_keys == SelectSeq(ks, LAMBDA k : k \in DOMAIN subs.val.mmol_record)
        mmol_data == MmolLoop(subs.val.mmol_record, mmol_keys, 1, <<>>)
        reaction_time == ParseTime(record)
        reaction_temperature == ParseTemperature(record)
        outcome == ParseOutcome(record, ignore_absent_outcome)
        expver == ParseExpver(record)
        reaction ==
            [identifier |-> record[ColName].s,
             outcome |-> outcome.val,
             reaction_time |-> reaction_time.val,
             reaction_temperature |-> reaction_temperature.val,
             experiment_version |-> expver.val,
             reagent_table |-> reagent_table.val,
             properties |->
                 [category_x_to_inchikey |-> category_x_to_inchikey,
                  mmol_data |-> mmol_data.val]]
    IN IF subs.exc # None THEN subs
       ELSE IF Cardinality(DOMAIN category_x_to_inchikey) # Cardinality(inchikeys)
            THEN Raise(AssertionError)
       ELSE IF reagent_table.exc # None THEN reagent_table
       ELSE IF mmol_data.exc # None THEN mmol_data
       ELSE IF reaction_time.exc # None THEN reaction_time
       ELSE IF reaction_temperature.exc # None THEN reaction_temperature
       ELSE IF outcome.exc # None THEN outcome
       ELSE IF expver.exc # None THEN expver
       ELSE IF VolumeTooSmall(total_volume(reaction)) THEN Raise(ReactionParserError)
       ELSE Return(reaction)

(***************************************************************************)
(* The records the parser is given                                         *)
(***************************************************************************)

\* Bound: a record differs from a baseline record in at most this many
\* columns.
MaxFaults == 1

\* A cell of a column the record does not have.
Absent == [t |-> "absent", q |-> RZero, s |-> ""]

VolumeColumns == {ColVolume(i) : i \in 0..(MaxSlots - 1)}
PrepareColumns == {ColPrepare(i) : i \in 0..(MaxSlots - 1)}
PrepareUnitColumns == {ColPrepareUnit(i) : i \in 0..(MaxSlots - 1)}
InchikeyColumns == {ColInchikey(i, j) : i \in 0..(MaxSlots - 1), j \in 0..(MaxRm - 1)}
AmountColumns == {ColAmount(i, j) : i \in 0..(MaxSlots - 1), j \in 0..(MaxRm - 1)}
AmountUnitColumns ==
    {ColAmountUnit(i, j) : i \in 0..(MaxSlots - 1), j \in 0..(MaxRm - 1)}

\* The cells a column can hold: numbers in the column's unit (s, degree C,
\* microliter, milliliter, mmol, gram), NaN, text, or no such column.
CellValues(k) ==
    {Absent, NaN} \cup
    CASE k = ColTime -> {Str("abc"), Num(RZero), Num(Rat(600, 1))}
      [] k = ColTemperature -> {Str("abc"), Num(Rat(-300, 1)), Num(Rat(25, 1))}
      [] k = target_column -> {Str("abc"), Num(Rat(4, 1))}
      [] k = experiment_version_column -> {Str("3.0"), Num(Rat(3, 1))}
      [] k = ColCategory("organic_0") -> {Str("orga-nic-n"), Str("ANTI-SOLV-N")}
      [] k = ColCategory("solvent_0") -> {Str("ANTI-SOLV-N")}
      [] k \in {ColMmol(M_ORG.inchikey), ColMmol(M_ANTI.inchikey)} ->
             {Str("abc"), Num(RZero), Num(Rat(1, 10))}
      [] k \in VolumeColumns ->
             {Str("abc"), Num(RZero), Num(Rat(1, 2)), Num(Rat(5, 1)),
              Num(Rat(10, 1)), Num(Rat(400, 1)), Num(Rat(600, 1))}
      [] k \in PrepareColumns -> {Str("abc"), Num(Rat(2, 1))}
      [] k \in PrepareUnitColumns -> {Str("milliliter")}
      [] k \in InchikeyColumns ->
             {Str("ORGA-NIC-N"), Str("ANTI-SOLV-N"), Str("UNKN-OWN-N")}
      [] k \in AmountColumns -> {Num(RZero), Num(Rat(1, 50)), Num(Rat(2, 1))}
      [] k \in AmountUnitColumns -> {Str("gram"), Str("milliliter"), Str("liter")}

\* A well-formed record: slot 0 holds 600 microliter of the antisolvent,
\* slot 1 holds 400 microliter of a solution of the organic; the other
\* slots are empty.
WellFormedCells ==
    [k \in Range(ColumnOrder) |->
        CASE k = ColName -> Str("R1")
          [] k = ColTime -> Num(Rat(600, 1))
          [] k = ColTemperature -> Num(Rat(25, 1))
          [] k = target_column -> Num(Rat(4, 1))
          [] k = experiment_version_column -> Str("3.0")
          [] k = ColCategory("organic_0") -> Str("orga-nic-n")
          [] k = ColCategory("solvent_0") -> Str("ANTI-SOLV-N")
          [] k = ColMmol(M_ORG.inchikey) -> Num(Rat(1, 10))
          [] k = ColMmol(M_ANTI.inchikey) -> NaN
          [] k = ColVolume(0) -> Num(Rat(600, 1))
          [] k = ColVolume(1) -> Num(Rat(400, 1))
          [] k \in {ColPrepare(0), ColPrepare(1)} -> Num(Rat(2, 1))
          [] k \in {ColPrepareUnit(0), ColPrepareUnit(1)} -> Str("milliliter")
          [] k = ColInchikey(0, 0) -> Str("ANTI-SOLV-N")
          [] k = ColAmount(0, 0) -> Num(Rat(2, 1))
          [] k = ColAmountUnit(0, 0) -> Str("milliliter")
          [] k = ColInchikey(1, 0) -> Str("ORGA-NIC-N")
          [] k = ColAmount(1, 0) -> Num(Rat(1, 50))
          [] k = ColAmountUnit(1, 0) -> Str("gram")
          [] OTHER -> NaN]

\* The same record with slot 0 as its only reagent.
SingleReagentCells == [WellFormedCells EXCEPT ![ColVolume(1)] = NaN]

\* The same record with every reagent column empty.
NoReagentCells ==
    [k \in Range(ColumnOrder) |->
        IF ColumnClass[k] = COL_REAGENT THEN NaN ELSE WellFormedCells[k]]

\* The columns pandas reads as numbers when every cell is a number.
NumericColumns ==
    {ColTime, ColTemperature, target_column, ColMmol(M_ORG.inchikey),
     ColMmol(M_ANTI.inchikey)} \cup VolumeColumns \cup PrepareColumns
        \cup AmountColumns

\* The cells of a row that pd.read_csv produced: the row has a cell for
\* every column of the frame, and the numeric columns hold no text.
CsvCellValues(k) ==
    {v \in CellValues(k) :
        /\ v # Absent
        /\ k \in NumericColumns => v.t # "str"}

\* The changes of one cell: a column and a value it can hold; those that
\* leave the row one that pd.read_csv can produce.
CellFaults ==
    UNION {{<<k, v>> : v \in CellValues(k)} : k \in Range(ColumnOrder) \ {ColName}}
CsvCellFaults ==
    UNION {{<<k, v>> : v \in CsvCellValues(k)} : k \in Range(ColumnOrder) \ {ColName}}

\* The cells that differ from a baseline in at most n columns; from_csv
\* tells whether the row comes out of pd.read_csv.
RECURSIVE Faulted(_, _)
Faulted(n, from_csv) ==
    IF n = 0 THEN {WellFormedCells, SingleReagentCells, NoReagentCells}
    ELSE LET fewer == Faulted(n - 1, from_csv)
         IN fewer \cup
            {[c EXCEPT ![f[1]] = f[2]] :
                 c \in fewer, f \in IF from_csv THEN CsvCellFaults ELSE CellFaults}

\* The dict of a row of cells.
RecordOf(cells) == [k \in {x \in DOMAIN cells : cells[x] # Absent} |-> cells[k]]

\* The dicts record_to_reaction is called with, and the rows of a csv.
Records == {RecordOf(c) : c \in Faulted(MaxFaults, FALSE)}
CsvRows == Faulted(MaxFaults, TRUE)

\* The header of a csv: every column, or all but one of the reaction's
\* scalar columns.
RECURSIVE Without(_, _)
Without(seq, x) ==
    IF seq = <<>> THEN <<>>
    ELSE IF Head(seq) = x THEN Without(Tail(seq), x)
    ELSE <<Head(seq)>> \o Without(Tail(seq), x)

CsvHeaders ==
    {ColumnOrder} \cup
    {Without(ColumnOrder, k) :
         k \in {ColTime, ColTemperature, target_column, experiment_version_column}}

(***************************************************************************)
(* record_to_reaction and collect_reactions as state machines              *)
(***************************************************************************)

ParseIdle ==
    /\ p_record = None
    /\ p_ignore = FALSE
    /\ p_result = None
    /\ p_pc = "idle"

ParseCalled ==
    /\ p_record \in Records
    /\ p_ignore \in BOOLEAN
    /\ p_result = None
    /\ p_pc = "called"

\* record_to_reaction returns a Reaction or raises.
RecordToReaction ==
    /\ p_pc = "called"
    /\ p_result' = record_to_reaction(p_record, MaterialInventory, None, p_ignore)
    /\ p_pc' = IF p_result'.exc = None THEN "returned" ELSE "raised"
    /\ UNCHANGED <<p_record, p_ignore>>

\* Bound: the number of records of a csv.
MaxBatch == 2

CollectIdle ==
    /\ cr_columns = <<>>
    /\ cr_record = None
    /\ cr_ignore = FALSE
    /\ cr_reactions = <<>>
    /\ cr_log = <<>>
    /\ cr_result = None
    /\ cr_pc = "idle"

CollectCalled ==
    /\ cr_columns \in CsvHeaders
    /\ cr_record = None
    /\ cr_ignore \in BOOLEAN
    /\ cr_reactions = <<>>
    /\ cr_log = <<>>
    /\ cr_result = None
    /\ cr_pc = "loop"

\* One turn of the loop of collect_reactions (parser.py:196-204) on the next
\* record of df.to_dict(orient="records"), with keys=df.columns: the Reaction is appended, or a ReactionParserError is
\* logged and the record dropped, or another exception leaves the function.
\* cr_log has one entry per record read.
CollectRecord ==
    /\ cr_pc = "loop"
    /\ Len(cr_log) < MaxBatch
    /\ \E row \in CsvRows :
          /\ cr_record' = [k \in Range(cr_columns) |-> row[k]]
          /\ cr_result' = record_to_reaction(cr_record', MaterialInventory,
                                             cr_columns, cr_ignore)
    /\ cr_reactions' = IF cr_result'.exc = None
                       THEN Append(cr_reactions, cr_result'.val)
                       ELSE cr_reactions
    /\ cr_log' = Append(cr_log, IF cr_result'.exc = None THEN "appended"
                                ELSE IF cr_result'.exc = ReactionParserError
                                THEN "dropped"
                                ELSE "raised")
    /\ cr_pc' = IF cr_result'.exc \in {None, ReactionParserError}
                THEN "loop" ELSE "raised"
    /\ UNCHANGED <<cr_columns, cr_ignore>>

\* The records are exhausted: collect_reactions returns the list.
CollectReturn ==
    /\ cr_pc = "loop"
    /\ cr_pc' = "returned"
    /\ UNCHANGED <<cr_columns, cr_record, cr_ignore, cr_reactions, cr_log, cr_result>>

(***************************************************************************)
(* WF3Data.from_reaction (schema.py:293-415)                               *)
(***************************************************************************)

\* The keys of a dict in insertion order; the dicts of the model are filled
\* in ascending order of their integer keys.
RECURSIVE KeyOrder(_)
KeyOrder(S) ==
    IF S = {} THEN <<>>
    ELSE LET least == CHOOSE x \in S : \A y \in S : x <= y
         IN <<least>> \o KeyOrder(S \ {least})

\* d[k] = v on a dict.
DictPut(d, k, v) == [x \in DOMAIN d \cup {k} |-> IF x = k THEN v ELSE d[x]]

\* del d[k]
DictDel(d, k) == [x \in DOMAIN d \ {k} |-> d[x]]

\* ReagentMaterial.volume, in liter (the constructor admits only the units
\* gram and milliliter).
rm_volume(rm) ==
    IF Lower(rm.amount_unit) = "gram"
    THEN RDiv(RMul(Float_1e_3, rm.amount.q), rm.material.density)
    ELSE RMul(Float_1e_3, rm.amount.q)

\* ReagentMaterial.mol
rm_mol(rm) ==
    IF Lower(rm.amount_unit) = "gram"
    THEN RDiv(rm.amount.q, rm.material.mw)
    ELSE RDiv(RMul(rm.material.density, rm.amount.q), rm.material.mw)

\* Reagent.volume_sum
volume_sum(reagent) ==
    RSum(DOMAIN reagent.reagent_material_table,
         [j \in DOMAIN reagent.reagent_material_table |->
             rm_volume(reagent.reagent_material_table[j])])

\* Reagent.molarity_table: a float division, which raises when the volume
\* sum is zero.  The last constituent of an identifier sets its entry.
molarity_table(reagent) ==
    LET table == reagent.reagent_material_table
    IN IF volume_sum(reagent) = RZero THEN Raise(ZeroDivisionError)
       ELSE Return([ik \in {table[j].material.inchikey : j \in DOMAIN table} |->
                       LET j == CHOOSE x \in DOMAIN table :
                                    /\ table[x].material.inchikey = ik
                                    /\ \A y \in DOMAIN table :
                                           table[y].material.inchikey = ik => y <= x
                       IN RDiv(rm_mol(table[j]), volume_sum(reagent))])

\* Reaction.is_wf3
is_wf3(reaction) == StartsWith(reaction.experiment_version, "3")

\* The constituents of the reaction in the order the nested loops over
\* reagent_table and reagent_material_table visit them, each with the key
\* of its reagent.
RECURSIVE Constituents(_, _)
Constituents(reaction, ireagents) ==
    IF ireagents = <<>> THEN <<>>
    ELSE LET ireagent == Head(ireagents)
             table == reaction.reagent_table[ireagent].reagent_material_table
             irms == KeyOrder(DOMAIN table)
         IN [n \in 1..Len(irms) |-> [ireagent |-> ireagent, rm |-> table[irms[n]]]]
                \o Constituents(reaction, Tail(ireagents))

AllConstituents(reaction) ==
    Constituents(reaction, KeyOrder(DOMAIN reaction.reagent_table))

\* Reaction.inchikey_to_material: the dict, and its keys in insertion order.
inchikey_to_material(reaction) ==
    LET cs == AllConstituents(reaction)
    IN [ik \in {cs[n].rm.material.inchikey : n \in DOMAIN cs} |->
           LET last == CHOOSE n \in DOMAIN cs :
                           /\ cs[n].rm.material.inchikey = ik
                           /\ \A k \in DOMAIN cs :
                                  cs[k].rm.material.inchikey = ik => k <= n
           IN cs[last].rm.material]

InchikeyOrder(reaction) ==
    LET cs == AllConstituents(reaction)
        firsts == SelectSeq([n \in DOMAIN cs |-> n],
                            LAMBDA n : \A k \in 1..(n - 1) :
                                cs[k].rm.material.inchikey # cs[n].rm.material.inchikey)
    IN [n \in DOMAIN firsts |-> cs[firsts[n]].rm.material.inchikey]

\* A variant that also admits a reagent added in exactly 500 microliter.
possible_antisolvents_inclusive(reaction) ==
    {ireagent \in DOMAIN reaction.reagent_table :
        /\ Cardinality(DOMAIN reaction.reagent_table[ireagent].reagent_material_table) = 1
        /\ ~RLt(reaction.reagent_table[ireagent].volume_added, Float_500e_6)}

\* Lines 301-305: the reagents with one constituent that were added in more
\* than 500 microliter.
possible_antisolvents(reaction) ==
    {ireagent \in DOMAIN reaction.reagent_table :
        /\ Cardinality(DOMAIN reaction.reagent_table[ireagent].reagent_material_table) = 1
        /\ RGt(reaction.reagent_table[ireagent].volume_added, Float_500e_6)}

\* {cat: {} for cat in EscalateCategories}
EmptyCategoryTable == [cat \in Range(EscalateCategories) |-> <<>>]

\* table[category][inchikey] = value; KeyError when the category is none of
\* EscalateCategories.
CategoryPut(table, category, inchikey, value) ==
    IF category \notin DOMAIN table THEN Raise(KeyError)
    ELSE Return([table EXCEPT ![category] = DictPut(table[category], inchikey, value)])

\* Lines 344-354: the molarities from the mole map, from the n-th
\* identifier of inchikey_to_material on.
RECURSIVE MmolPath(_, _, _, _, _, _, _)
MmolPath(reaction, order, n, table, antisolvent, volume_alpha_vial, volume_beta_vial) ==
    IF n > Len(order) THEN Return(table)
    ELSE LET inchikey == order[n]
             mat == inchikey_to_material(reaction)[inchikey]
             mmol_data == reaction.properties["mmol_data"]
             vol == IF inchikey = antisolvent.inchikey THEN volume_beta_vial
                    ELSE volume_alpha_vial
             put == CategoryPut(table, mat.category, inchikey,
                                RDiv(RMul(mmol_data[inchikey], Float_1e_3), vol))
         IN IF inchikey \notin DOMAIN mmol_data THEN Raise(KeyError)
            ELSE IF vol = RZero THEN Raise(ZeroDivisionError)
            ELSE IF put.exc # None THEN put
            ELSE MmolPath(reaction, order, n + 1, put.val, antisolvent,
                          volume_alpha_vial, volume_beta_vial)

\* Lines 360-373: the molarities from the reagents, from the n-th
\* constituent on.
RECURSIVE ReagentPath(_, _, _, _, _, _, _)
ReagentPath(reaction, cs, n, table, ireagent_antisolvent, volume_alpha_vial, volume_beta_vial) ==
    IF n > Len(cs) THEN Return(table)
    ELSE LET reagent == reaction.reagent_table[cs[n].ireagent]
             mat == cs[n].rm.material
             molarities == molarity_table(reagent)
             moles == RMul(molarities.val[mat.inchikey], reagent.volume_added)
             vol == IF cs[n].ireagent = ireagent_antisolvent THEN volume_beta_vial
                    ELSE volume_alpha_vial
             before == IF mat.category \in DOMAIN table
                          /\ mat.inchikey \in DOMAIN table[mat.category]
                       THEN table[mat.category][mat.inchikey]
                       ELSE RZero
             put == CategoryPut(table, mat.category, mat.inchikey,
                                RAdd(before, RDiv(moles, vol)))
         IN IF molarities.exc # None THEN molarities
            ELSE IF vol = RZero THEN Raise(ZeroDivisionError)
            ELSE IF put.exc # None THEN put
            ELSE ReagentPath(reaction, cs, n + 1, put.val, ireagent_antisolvent,
                             volume_alpha_vial, volume_beta_vial)

\* Lines 380-390: the comparison of the two tables divides by the molarity
\* from the reagents.
CrossCheck(reaction, order, table_mmol_data, table_reagent_data) ==
    LET i2m == inchikey_to_material(reaction)
    IN IF \E n \in DOMAIN order :
              table_reagent_data[i2m[order[n]].category][order[n]] = RZero
       THEN Raise(ZeroDivisionError)
       ELSE Return(None)

\* "%".join(words)
RECURSIVE Join(_, _)
Join(sep, words) ==
    IF words = <<>> THEN ""
    ELSE IF Len(words) = 1 THEN words[1]
    ELSE words[1] \o sep \o Join(sep, Tail(words))

\* A variant that keeps the antisolvent's entry.
DelNothing(table, antisolvent) == table

\* Lines 397-401: the table that is published, the antisolvent's entry
\* deleted from its category.
DelAntisolvent(table, antisolvent) ==
    [table EXCEPT ![antisolvent.category] = DictDel(table[antisolvent.category],
                                                   antisolvent.inchikey)]

\* Line 403: the fingerprint of a category table.
fingerprint(table) ==
    Join("%", [n \in DOMAIN EscalateCategories |->
                  ToString(Cardinality(DOMAIN table[EscalateCategories[n]]))])

\* WF3Data.from_reaction(reaction): the WF3Data, or the exception raised.
from_reaction(reaction) ==
    LET possible == possible_antisolvents(reaction)
        ireagent_antisolvent == CHOOSE i \in possible : TRUE
        reagent_antisolvent == reaction.reagent_table[ireagent_antisolvent]
        antisolvent ==
            reagent_antisolvent.reagent_material_table[
                Head(KeyOrder(DOMAIN reagent_antisolvent.reagent_material_table))].material
        volume_beta_vial == reagent_antisolvent.volume_added
        volume_alpha_vial ==
            RSum(DOMAIN reaction.reagent_table \ {ireagent_antisolvent},
                 [i \in DOMAIN reaction.reagent_table \ {ireagent_antisolvent} |->
                     reaction.reagent_table[i].volume_added])
        order == InchikeyOrder(reaction)
        table_mmol_data ==
            MmolPath(reaction, order, 1, EmptyCategoryTable, antisolvent,
                     volume_alpha_vial, volume_beta_vial)
        table_reagent_data ==
            ReagentPath(reaction, AllConstituents(reaction), 1, EmptyCategoryTable,
                        ireagent_antisolvent, volume_alpha_vial, volume_beta_vial)
        check == CrossCheck(reaction, order, table_mmol_data.val, table_reagent_data.val)
        published == DelAntisolvent(table_mmol_data.val, antisolvent)
    IN IF ~is_wf3(reaction) THEN Raise(AssertionError)
       ELSE IF Cardinality(possible) # 1 THEN Raise(AssertionError)
       ELSE IF "mmol_data" \notin DOMAIN reaction.properties THEN Raise(AssertionError)
       ELSE IF table_mmol_data.exc # None THEN table_mmol_data
       ELSE IF table_reagent_data.exc # None THEN table_reagent_data
       ELSE IF check.exc # None THEN check
       ELSE Return([identifier |-> reaction.identifier,
                    fingerprint |-> fingerprint(published),
                    outcome |-> reaction.outcome,
                    organic |-> published["organic"],
                    inorganic |-> published["inorganic"],
                    solvent |-> published["solvent"],
                    acid |-> published["acid"],
                    alpha_vial_volume |-> volume_alpha_vial,
                    beta_vial_volume |-> volume_beta_vial,
                    reaction_time |-> reaction.reaction_time,
                    reaction_temperature |-> reaction.reaction_temperature,
                    antisolvent_identity |-> antisolvent.inchikey])

(***************************************************************************)
(* The reactions WF3Data.from_reaction is given                            *)
(***************************************************************************)

\* Bound: the number of reagents of a reaction.
MaxReagents == 2

\* A constituent: solvents and acids are measured in milliliter, solids in
\* gram.
Constituent(material, amount) ==
    [material |-> material, amount |-> Num(amount),
     amount_unit |-> IF material.category \in {"solvent", "acid"}
                     THEN "milliliter" ELSE "gram"]

\* The constituent tables of the reagents: one material, or two.
MaterialTables ==
    {[j \in {0} |-> Constituent(mat, Rat(1, 1))] :
        mat \in {M_ANTI, M_ORG, M_ORG2, M_INORG, M_ACID}}
    \cup {[j \in {0} |-> Constituent(M_ANTI, RZero)]}
    \cup {[j \in {0, 1} |-> IF j = 0 THEN Constituent(pair[1], Rat(1, 1))
                            ELSE Constituent(pair[2], pair[3])] :
             pair \in {<<M_ORG, M_ANTI, Rat(1, 1)>>, <<M_ORG, M_ORG2, Rat(1, 1)>>,
                       <<M_ORG, M_INORG, RZero>>, <<M_INORG, M_ACID, Rat(1, 1)>>}}

\* The volumes a reagent is added in: 0, 500 and 501 microliter.
AddedVolumes ==
    {RZero, RMul(Rat(500, 1), Float_1e_6), RMul(Rat(501, 1), Float_1e_6)}

Reagents ==
    {[reagent_material_table |-> table, volume_added |-> volume] :
        table \in MaterialTables, volume \in AddedVolumes}

\* The reagent tables with keys 0 .. n-1, n from 1 to MaxReagents.
ReagentTables == UNION {[0..(n - 1) -> Reagents] : n \in 1..MaxReagents}

\* The `properties` of a Reaction: none, or a mole map for every material
\* of the inventory, or one without the antisolvent.
MmolData(materials) == [ik \in {mat.inchikey : mat \in materials} |-> Rat(1, 10)]

ReactionProperties ==
    {<<>>,
     [p \in {"mmol_data"} |-> MmolData({M_ANTI, M_ORG, M_ORG2, M_INORG, M_ACID})],
     [p \in {"mmol_data"} |-> MmolData({M_ORG, M_ORG2, M_INORG, M_ACID})]}

Reactions ==
    {[identifier |-> "2020-01-01T10_00_R1",
      outcome |-> IntValue(4),
      reaction_time |-> Rat(600, 1),
      reaction_temperature |-> Rat(25, 1),
      experiment_version |-> expver,
      reagent_table |-> table,
      properties |-> properties] :
        expver \in {"3.0", "1.1"}, table \in ReagentTables,
        properties \in ReactionProperties}

WF3Idle ==
    /\ wf_reaction = None
    /\ wf_result = None
    /\ wf_pc = "idle"

WF3Called ==
    /\ wf_reaction \in Reactions
    /\ wf_result = None
    /\ wf_pc = "called"

\* WF3Data.from_reaction returns a WF3Data or raises.
FromReaction ==
    /\ wf_pc = "called"
    /\ wf_result' = from_reaction(wf_reaction)
    /\ wf_pc' = IF wf_result'.exc = None THEN "returned" ELSE "raised"
    /\ UNCHANGED wf_reaction

(***************************************************************************)
(* SamplerConvexHull (schema.py:418-487)                                   *)
(***************************************************************************)

\* The characters of the identifiers in code point order.
Alphabet == "-0123456789ABCDEFGHIJKLMNOPQRSTUVWXYZ_abcdefghijklmnopqrstuvwxyz"

\* ord(c), up to an order-preserving renumbering.
Ord(c) == CHOOSE i \in 1..Len(Alphabet) : SubSeq(Alphabet, i, i) = c

\* str.__lt__: the lexicographic order of the code points.
RECURSIVE StrLt(_, _)
StrLt(a, b) ==
    IF Len(b) = 0 THEN FALSE
    ELSE IF Len(a) = 0 THEN TRUE
    ELSE IF SubSeq(a, 1, 1) # SubSeq(b, 1, 1)
         THEN Ord(SubSeq(a, 1, 1)) < Ord(SubSeq(b, 1, 1))
    ELSE StrLt(SubSeq(a, 2, Len(a)), SubSeq(b, 2, Len(b)))

\* Material.__lt__
MaterialLt(m1, m2) == StrLt(m1.inchikey, m2.inchikey)

\* sorted(materials): a stable sort that compares with __lt__.
RECURSIVE InsertMaterial(_, _)
InsertMaterial(mat, sorted) ==
    IF sorted = <<>> THEN <<mat>>
    ELSE IF MaterialLt(mat, Head(sorted)) THEN <<mat>> \o sorted
    ELSE <<Head(sorted)>> \o InsertMaterial(mat, Tail(sorted))

RECURSIVE SortMaterials(_)
SortMaterials(materials) ==
    IF materials = <<>> THEN <<>>
    ELSE InsertMaterial(materials[Len(materials)],
                        SortMaterials(SubSeq(materials, 1, Len(materials) - 1)))

\* The elements of set(materials), each once: Material has __hash__ but no
\* __eq__, so two elements are the same only when they are one object.
RECURSIVE DistinctObjects(_)
DistinctObjects(materials) ==
    IF materials = <<>> THEN <<>>
    ELSE LET front == DistinctObjects(SubSeq(materials, 1, Len(materials) - 1))
             mat == materials[Len(materials)]
         IN IF \E n \in DOMAIN front : front[n].obj = mat.obj THEN front
            ELSE Append(front, mat)

\* [m.inchikey for m in space]
InchikeysOf(materials) == [n \in DOMAIN materials |-> materials[n].inchikey]

\* SamplerConvexHull(space, df): _df is its column labels and its rows, a
\* row being the sequence of its values in column order.
SamplerConvexHull(space, columns, rows) ==
    [space |-> space, columns |-> columns, rows |-> rows]

\* SamplerConvexHull.space (schema.py:437-440)
space(sch) ==
    IF Len(sch.space) = 0 THEN Raise(AssertionError)
    ELSE Return(SortMaterials(sch.space))

\* The order of sort_values(by=cols): the rows compared value by value.
RECURSIVE RowLt(_, _)
RowLt(r1, r2) ==
    IF r1 = <<>> THEN FALSE
    ELSE IF Head(r1) # Head(r2) THEN RLt(Head(r1), Head(r2))
    ELSE RowLt(Tail(r1), Tail(r2))

RECURSIVE InsertRow(_, _)
InsertRow(row, sorted) ==
    IF sorted = <<>> THEN <<row>>
    ELSE IF RowLt(row, Head(sorted)) THEN <<row>> \o sorted
    ELSE <<Head(sorted)>> \o InsertRow(row, Tail(sorted))

RECURSIVE SortRows(_)
SortRows(rows) ==
    IF rows = <<>> THEN <<>>
    ELSE InsertRow(rows[Len(rows)], SortRows(SubSeq(rows, 1, Len(rows) - 1)))

\* SamplerConvexHull.df (schema.py:442-446): the rows in sorted order.
df(sch) ==
    LET sp == space(sch)
    IN IF sp.exc # None THEN sp
       ELSE IF InchikeysOf(sp.val) # sch.columns THEN Raise(AssertionError)
       ELSE Return(SortRows(sch.rows))

\* df.to_dict(orient='records'): a dict per row.
ToRecords(columns, rows) ==
    [n \in DOMAIN rows |->
        [c \in Range(columns) |->
            rows[n][CHOOSE k \in DOMAIN columns : columns[k] = c]]]

\* A variant of FromRecords that drops a record lacking a column (dropna).
FromRecordsDropIncomplete(records, columns) ==
    LET complete == SelectSeq(records, LAMBDA rec : Range(columns) \subseteq DOMAIN rec)
    IN [n \in DOMAIN complete |-> [k \in DOMAIN columns |-> complete[n][columns[k]]]]

\* pd.DataFrame.from_records(records, columns=columns) and fillna(0.0): a
\* column a record lacks holds 0.
FromRecords(records, columns) ==
    [n \in DOMAIN records |->
        [k \in DOMAIN columns |->
            IF columns[k] \in DOMAIN records[n] THEN records[n][columns[k]]
            ELSE RZero]]

\* A variant that keeps every row.
KeepDuplicates(rows) == rows

\* drop_duplicates(ignore_index=True): the first of equal rows is kept.
RECURSIVE DropDuplicates(_)
DropDuplicates(rows) ==
    IF rows = <<>> THEN <<>>
    ELSE LET front == DropDuplicates(SubSeq(rows, 1, Len(rows) - 1))
             row == rows[Len(rows)]
         IN IF \E n \in DOMAIN front : front[n] = row THEN front
            ELSE Append(front, row)

\* SamplerConvexHull.combine(sch1, sch2) (schema.py:423-435)
combine(sch1, sch2) ==
    LET space1 == space(sch1)
        space2 == space(sch2)
        new_space == SortMaterials(DistinctObjects(space1.val \o space2.val))
        df1 == df(sch1)
        df2 == df(sch2)
        records == ToRecords(sch1.columns, df1.val) \o ToRecords(sch2.columns, df2.val)
        new_columns == InchikeysOf(new_space)
    IN IF space1.exc # None THEN space1
       ELSE IF space2.exc # None THEN space2
       ELSE IF df1.exc # None THEN df1
       ELSE IF df2.exc # None THEN df2
       ELSE Return(SamplerConvexHull(new_space, new_columns,
                                     DropDuplicates(FromRecords(records, new_columns))))

\* np.allclose(a, b) on two values: |a - b| <= atol + rtol * |b| with the
\* defaults atol = 1e-8 and rtol = 1e-5.
isclose(a, b) ==
    ~RGt(RAbs(RSub(a, b)),
         RAdd(Rat(1, 100000000), RMul(Float_1e_5, RAbs(b))))

\* SamplerConvexHull.__eq__(self, other) (schema.py:448-457)
hull_eq(self, other) ==
    LET space1 == space(self)
        space2 == space(other)
        df1 == df(self)
        df2 == df(other)
    IN IF space1.exc # None THEN space1
       ELSE IF space2.exc # None THEN space2
       ELSE IF Len(space1.val) # Len(space2.val) THEN Return(FALSE)
       ELSE IF \E i \in DOMAIN space1.val : space1.val[i].obj # space2.val[i].obj
            THEN Return(FALSE)
       ELSE IF df1.exc # None THEN df1
       ELSE IF df2.exc # None THEN df2
       ELSE IF Len(df1.val) # Len(df2.val) \/ Len(self.columns) # Len(other.columns)
            THEN Return(FALSE)
       ELSE IF \E n \in DOMAIN df1.val : \E k \in DOMAIN self.columns :
                   ~isclose(df1.val[n][k], df2.val[n][k])
            THEN Return(FALSE)
       ELSE Return(TRUE)

\* Reagent.__eq__ (schema.py:169-179); the reagents of the model have a
\* molarity table.
reagent_eq(r1, r2) ==
    LET t1 == molarity_table(r1).val
        t2 == molarity_table(r2).val
    IN /\ DOMAIN t1 = DOMAIN t2
       /\ \A k \in DOMAIN t1 : ~RGt(RAbs(RSub(t1[k], t2[k])), Float_1e_5)

\* round(v, 5) in units of 1e-5: the nearest integer to v * 1e5, the even
\* one of two that are equally near.
round5(v) ==
    LET x == RMul(v, Rat(100000, 1))
        floor == x[1] \div x[2]
        twice == 2 * (x[1] % x[2])
    IN IF twice > x[2] \/ (twice = x[2] /\ floor % 2 = 1) THEN floor + 1 ELSE floor

\* Reagent.__hash__ (schema.py:181-182): the hash of the sorted tuple of
\* (identifier, rounded molarity); two reagents have the same hash when
\* the tuples are equal.
reagent_hash(r) ==
    LET t == molarity_table(r).val
    IN [k \in DOMAIN t |-> round5(t[k])]

\* Membership in a set of Reagents: a member with the hash of the reagent
\* that is equal to it.
reagent_in(members, reagent) ==
    \E n \in DOMAIN members :
        /\ reagent_hash(members[n]) = reagent_hash(reagent)
        /\ reagent_eq(members[n], reagent)

\* The loop over the reagents of from_reagent_set (schema.py:476-484), from
\* the n-th reagent on.
RECURSIVE PointsLoop(_, _, _, _)
PointsLoop(reagents, concentration_space, n, points) ==
    IF n > Len(reagents) THEN Return(points)
    ELSE LET molarities == molarity_table(reagents[n])
             v == [iax \in DOMAIN concentration_space |->
                      IF concentration_space[iax].inchikey \in DOMAIN molarities.val
                      THEN molarities.val[concentration_space[iax].inchikey]
                      ELSE RZero]
         IN IF molarities.exc # None THEN molarities
            ELSE IF ~(Len(v) > 0 /\ \E iax \in DOMAIN v : RGt(v[iax], Rat(1, 10000000)))
                 THEN Raise(AssertionError)
            ELSE PointsLoop(reagents, concentration_space, n + 1, Append(points, v))

\* The materials of the reagents, in the order of the loops at
\* schema.py:472-474.
RECURSIVE MaterialsOf(_)
MaterialsOf(reagents) ==
    IF reagents = <<>> THEN <<>>
    ELSE LET table == Head(reagents).reagent_material_table
             irms == KeyOrder(DOMAIN table)
         IN [n \in DOMAIN irms |-> table[irms[n]].material]
                \o MaterialsOf(Tail(reagents))

\* SamplerConvexHull.from_reagent_set(reagent_set); `reagents` is the set
\* in the order it is iterated in.
from_reagent_set(reagents) ==
    LET concentration_space == SortMaterials(DistinctObjects(MaterialsOf(reagents)))
        points == PointsLoop(reagents, concentration_space, 1, <<>>)
    IN IF points.exc # None THEN points
       ELSE Return(SamplerConvexHull(concentration_space,
                                     InchikeysOf(concentration_space), points.val))

(***************************************************************************)
(* The hulls that are combined                                             *)
(***************************************************************************)

\* Bound: the number of reagents of a reagent set.
MaxSetSize == 2

\* The stock solutions: an organic, the same with an inorganic weighed in
\* at 0 gram, and an inorganic with acid.
StockSolutions ==
    {[reagent_material_table |-> table, volume_added |-> RMul(Rat(400, 1), Float_1e_6)] :
        table \in {[j \in {0} |-> Constituent(M_ORG, Rat(1, 1))],
                   [j \in {0, 1} |-> IF j = 0 THEN Constituent(M_ORG, Rat(1, 1))
                                     ELSE Constituent(M_INORG, RZero)],
                   [j \in {0, 1} |-> IF j = 0 THEN Constituent(M_INORG, Rat(1, 1))
                                     ELSE Constituent(M_ACID, Rat(1, 1))]}}

\* The sets of 1 .. MaxSetSize stock solutions: no two elements of a Python
\* set are equal.
ReagentSets ==
    {rs \in SUBSET StockSolutions :
        /\ Cardinality(rs) \in 1..MaxSetSize
        /\ \A r1, r2 \in rs : r1 # r2 => ~reagent_eq(r1, r2)}

\* The orders a set can be iterated in.
Orders(S) ==
    {seq \in [1..Cardinality(S) -> S] : \A i, j \in DOMAIN seq : i # j => seq[i] # seq[j]}

HullIdle ==
    /\ h_sets = <<>>
    /\ h_hulls = <<>>
    /\ h_out = None
    /\ h_pc = "idle"

HullCalled ==
    /\ h_sets \in {<<a, b, c>> : a \in ReagentSets, b \in ReagentSets, c \in ReagentSets}
    /\ h_hulls = <<>>
    /\ h_out = None
    /\ h_pc = "called"

\* The hulls A, B and C of the three reagent sets (from_reagent_set), each
\* set iterated in some order.
BuildHulls ==
    /\ h_pc = "called"
    /\ \E o1 \in Orders(h_sets[1]), o2 \in Orders(h_sets[2]), o3 \in Orders(h_sets[3]) :
           h_hulls' = <<from_reagent_set(o1), from_reagent_set(o2), from_reagent_set(o3)>>
    /\ h_pc' = IF \A n \in 1..3 : h_hulls'[n].exc = None THEN "built" ELSE "raised"
    /\ UNCHANGED <<h_sets, h_out>>

\* combine and == on results: an exception of an operand is the outcome.
CombineResults(x, y) ==
    IF x.exc # None THEN x ELSE IF y.exc # None THEN y ELSE combine(x.val, y.val)

EqResults(x, y) ==
    IF x.exc # None THEN x ELSE IF y.exc # None THEN y ELSE hull_eq(x.val, y.val)

\* The combinations of A, B and C and their comparisons.
CombineHulls ==
    /\ h_pc = "built"
    /\ LET A == h_hulls[1]
           B == h_hulls[2]
           C == h_hulls[3]
           aa == CombineResults(A, A)
           ab == CombineResults(A, B)
           ba == CombineResults(B, A)
           ab_c == CombineResults(ab, C)
           a_bc == CombineResults(A, CombineResults(B, C))
       IN h_out' = [aa |-> aa, aa_eq_a |-> EqResults(aa, A),
                    ab |-> ab, ba |-> ba, ab_eq_ba |-> EqResults(ab, ba),
                    ab_c |-> ab_c, a_bc |-> a_bc,
                    ab_c_eq_a_bc |-> EqResults(ab_c, a_bc)]
    /\ h_pc' = "combined"
    /\ UNCHANGED <<h_sets, h_hulls>>

(***************************************************************************)
(* The accumulation of the sampling space (plumbing.py:105, 141-146, 151)  *)
(***************************************************************************)

\* Bound: the number of header groups that are folded.
MaxGroups == 3

\* The reagent sets of a header group once the antisolvent reagents are
\* left out: a set of stock solutions, or no reagent at all.
GroupReagentSets == ReagentSets \cup {{}}

\* ConvexHull is None, or holds a hull: a sequence of no or one hull.
NoHull == <<>>

FoldIdle ==
    /\ fold_hull = NoHull
    /\ fold_before = NoHull
    /\ fold_sch = NoHull
    /\ fold_groups = 0
    /\ fold_pc = "idle"

\* ConvexHull = None (plumbing.py:105)
FoldCalled ==
    /\ fold_hull = NoHull
    /\ fold_before = NoHull
    /\ fold_sch = NoHull
    /\ fold_groups = 0
    /\ fold_pc = "loop"

\* Lines 141-146 for one header group: its hull becomes the sampling space,
\* or is combined into it.  fold_before is the sampling space before the
\* step.  An exception of from_reagent_set or combine leaves the loop.
FoldHeaderGroup ==
    /\ fold_pc = "loop"
    /\ fold_groups < MaxGroups
    /\ \E reagent_set \in GroupReagentSets : \E reagents \in Orders(reagent_set) :
           LET sch == from_reagent_set(reagents)
               combined == IF fold_hull = NoHull THEN sch
                           ELSE CombineResults(Return(fold_hull[1]), sch)
           IN /\ fold_hull' = IF combined.exc = None THEN <<combined.val>> ELSE fold_hull
              /\ fold_pc' = IF combined.exc = None THEN "loop" ELSE "raised"
              /\ fold_sch' = IF sch.exc = None THEN <<sch.val>> ELSE NoHull
    /\ fold_before' = fold_hull
    /\ fold_groups' = fold_groups + 1

\* The groups are exhausted: assert ConvexHull is not None (plumbing.py:151).
FoldDone ==
    /\ fold_pc = "loop"
    /\ fold_pc' = IF fold_hull = NoHull THEN "raised" ELSE "done"
    /\ UNCHANGED <<fold_hull, fold_before, fold_sch, fold_groups>>

(***************************************************************************)
(* The verification of the sampling space (verify_convexhull.py)           *)
(***************************************************************************)

RuntimeError == "RuntimeError"

\* "YMWUJEATGCHHMB-UHFFFAOYSA-N", dichloromethane: the identifier of the
\* inventory's antisolvent.
DCM == M_ANTI.inchikey

\* abs(v) > 1 / e for a positive integer e, without a multiplication.
ExceedsEps(v, e) == v[1] # 0 /\ e > (v[2] \div Abs(v[1]))

\* v > 1 / e
GreaterThanEps(v, e) == v[1] > 0 /\ e > (v[2] \div v[1])

\* drop_zeros(d, eps=1e-9) (verify_convexhull.py:23-25)
drop_zeros(d) ==
    LET kept == {k \in DOMAIN d : ExceedsEps(d[k], 1000000000)}
    IN [k \in kept |-> d[k]]

\* Row i (from 1) of a table as a dict over its columns.
RowDict(df_hull, i) ==
    [c \in Range(df_hull.columns) |->
        df_hull.rows[i][CHOOSE k \in DOMAIN df_hull.columns : df_hull.columns[k] = c]]

\* The test of one row at verify_convexhull.py:33-37, eps = 1e-7.
RowFound(mt, row) ==
    /\ DOMAIN mt = DOMAIN drop_zeros(row)
    /\ ~\E k \in DOMAIN mt : GreaterThanEps(RSub(mt[k], row[k]), 10000000)

\* get_stock_solution_row_index(molarity_table, df_hull)
\* (verify_convexhull.py:28-47): the index (from 0) of the first row found.
get_stock_solution_row_index(table, df_hull) ==
    LET mt == drop_zeros(table)
        found == {i \in DOMAIN df_hull.rows : RowFound(mt, RowDict(df_hull, i))}
    IN IF found = {} THEN Raise(RuntimeError)
       ELSE Return((CHOOSE i \in found : \A j \in found : i <= j) - 1)

\* r.reagent_table.values()
ReagentValues(r) ==
    LET order == KeyOrder(DOMAIN r.reagent_table)
    IN [n \in DOMAIN order |-> r.reagent_table[order[n]]]

\* The loops of get_reaction_molarity_table over the reagents of the alpha
\* vial with their molarity tables (verify_convexhull.py:55-67).
AlphaMolarity(reagents, tables) ==
    LET vol_alpha == RSum(DOMAIN reagents, [n \in DOMAIN reagents |-> reagents[n].volume_added])
        inchikeys == UNION {DOMAIN tables[n] : n \in DOMAIN reagents}
    IN IF reagents # <<>> /\ vol_alpha = RZero THEN Raise(ZeroDivisionError)
       ELSE Return([i \in inchikeys |->
                LET with == {n \in DOMAIN reagents : i \in DOMAIN tables[n]}
                IN RSum(with, [n \in with |->
                        RDiv(RMul(tables[n][i], reagents[n].volume_added), vol_alpha)])])

\* sorted(d.keys()) of a dict with string keys.
RECURSIVE SortedKeys(_)
SortedKeys(S) ==
    IF S = {} THEN <<>>
    ELSE LET least == CHOOSE x \in S : \A y \in S \ {x} : StrLt(x, y)
         IN <<least>> \o SortedKeys(S \ {least})

\* The rest of get_checking_params once the molarity tables of the reagents
\* of the alpha vial are known (verify_convexhull.py:75-104).
CheckingParams(reagents, tables, df_hull) ==
    LET reaction_molarity_table == AlphaMolarity(reagents, tables)
        inchikeys == SortedKeys(DOMAIN reaction_molarity_table.val)
        indices == [irr \in DOMAIN reagents |->
                       get_stock_solution_row_index(tables[irr], df_hull)]
    IN IF reaction_molarity_table.exc # None THEN reaction_molarity_table
       ELSE IF \E irr \in DOMAIN indices : indices[irr].exc # None THEN Raise(RuntimeError)
       ELSE Return([target_molarity |-> [ii \in DOMAIN inchikeys |->
                                            reaction_molarity_table.val[inchikeys[ii]]],
                    ss_matrix |-> [irr \in DOMAIN reagents |-> [ii \in DOMAIN inchikeys |->
                                      IF inchikeys[ii] \in DOMAIN tables[irr]
                                      THEN tables[irr][inchikeys[ii]] ELSE RZero]],
                    ss_vols |-> [irr \in DOMAIN reagents |-> reagents[irr].volume_added],
                    ss_indices |-> [irr \in DOMAIN indices |-> indices[irr].val],
                    inchikeys |-> inchikeys])

\* is_reagent_antisolvent(reagent) (verify_convexhull.py:17-20) on the
\* molarity table of the reagent: its only key is that of dichloromethane.
is_reagent_antisolvent(table) == DOMAIN table = {DCM}

\* The reagents of the reaction that are not the antisolvent, by their
\* place in reagent_table.values(), given the molarity table of each.
AlphaIndices(tables) ==
    SelectSeq([n \in DOMAIN tables |-> n], LAMBDA n : ~is_reagent_antisolvent(tables[n].val))

\* get_reaction_molarity_table(r) (verify_convexhull.py:50-68): the molarity
\* of the chemicals in the alpha vial.  A reagent without volume raises in
\* molarity_table, an alpha vial without volume raises in the division.
get_reaction_molarity_table(r) ==
    LET values == ReagentValues(r)
        tables == [n \in DOMAIN values |-> molarity_table(values[n])]
        alpha == AlphaIndices(tables)
    IN IF \E n \in DOMAIN values : tables[n].exc # None THEN Raise(ZeroDivisionError)
       ELSE AlphaMolarity([n \in DOMAIN alpha |-> values[alpha[n]]],
                          [n \in DOMAIN alpha |-> tables[alpha[n]].val])

\* get_checking_params(r) with DfHull = df_hull (verify_convexhull.py:71-104)
get_checking_params(r, df_hull) ==
    LET values == ReagentValues(r)
        tables == [n \in DOMAIN values |-> molarity_table(values[n])]
        alpha == AlphaIndices(tables)
    IN IF \E n \in DOMAIN values : tables[n].exc # None THEN Raise(ZeroDivisionError)
       ELSE CheckingParams([n \in DOMAIN alpha |-> values[alpha[n]]],
                           [n \in DOMAIN alpha |-> tables[alpha[n]].val], df_hull)

\* forward_check(params) (verify_convexhull.py:107-119): the reported
\* verdict, np.allclose(ss_vols @ ss_matrix / sum(ss_vols), target).
forward_check(params) ==
    LET total == RSum(DOMAIN params.ss_vols, params.ss_vols)
        vs == [ii \in DOMAIN params.inchikeys |->
                  RDiv(RSum(DOMAIN params.ss_vols,
                            [irr \in DOMAIN params.ss_vols |->
                                RMul(params.ss_vols[irr], params.ss_matrix[irr][ii])]),
                       total)]
    IN \A ii \in DOMAIN vs : isclose(vs[ii], params.target_molarity[ii])

\* The solution of linear equations in k unknowns by elimination; an
\* equation is the sequence of its k coefficients and its right-hand side.
\* ok is FALSE when the equations have no solution or more than one.
RECURSIVE SolveLinear(_, _)
SolveLinear(eqs, k) ==
    IF k = 0 THEN [ok |-> \A e \in DOMAIN eqs : eqs[e][1] = RZero, v |-> <<>>]
    ELSE LET pivots == {e \in DOMAIN eqs : eqs[e][1] # RZero}
             p == CHOOSE e \in pivots : \A f \in pivots : e <= f
             others == SelectSeq([e \in DOMAIN eqs |-> IF e = p THEN <<>> ELSE eqs[e]],
                                 LAMBDA eq : eq # <<>>)
             reduced == [e \in DOMAIN others |-> [m \in 1..k |->
                            RSub(others[e][m + 1],
                                 RMul(RDiv(others[e][1], eqs[p][1]), eqs[p][m + 1]))]]
             sub == SolveLinear(reduced, k - 1)
             known == RSum(1..(k - 1), [m \in 1..(k - 1) |-> RMul(eqs[p][m + 1], sub.v[m])])
         IN IF pivots = {} \/ ~sub.ok THEN [ok |-> FALSE, v |-> <<>>]
            ELSE [ok |-> TRUE,
                  v |-> <<RDiv(RSub(eqs[p][k + 1], known), eqs[p][1])>> \o sub.v]

\* The constraints of the model at verify_convexhull.py:146-157 have a
\* solution: volumes v[i] >= 0 of the rows that sum to alpha_volume and give
\* alpha_volume * target on every column.  A feasible linear program has a
\* basic solution, the only solution on some subset of the rows.
Feasible(rows, target, alpha_volume) ==
    \E basis \in SUBSET DOMAIN rows :
        LET order == KeyOrder(basis)
            k == Len(order)
            volumes == [m \in 1..(k + 1) |-> IF m <= k THEN Rat(1, 1) ELSE alpha_volume]
            chemical == [j \in DOMAIN target |-> [m \in 1..(k + 1) |->
                            IF m <= k THEN rows[order[m]][j]
                            ELSE RMul(alpha_volume, target[j])]]
            solution == SolveLinear(<<volumes>> \o chemical, k)
        IN solution.ok /\ \A m \in 1..k : solution.v[m][1] >= 0

\* backward_check(target_molarities, alpha_volume, df_hull)
\* (verify_convexhull.py:122-171): the reported verdict, or the failure of
\* the assertion on the columns.
backward_check(target_molarities, alpha_volume, df_hull) ==
    LET inchikeys == df_hull.columns
        target_molarities_padded ==
            [i \in DOMAIN inchikeys |->
                IF inchikeys[i] \in DOMAIN target_molarities
                THEN target_molarities[inchikeys[i]] ELSE RZero]
    IN IF ~(DOMAIN target_molarities \subseteq Range(inchikeys)) THEN Raise(AssertionError)
       ELSE Return(Feasible(df_hull.rows, target_molarities_padded, alpha_volume))

(***************************************************************************)
(* The reactions and the table that are verified                           *)
(***************************************************************************)

\* Bound: the number of reactions of ReactionsValid.
MaxVerified == 2

\* The reagents of the verified reactions: the antisolvent, two mixtures of
\* the organic and the acid, and the acid.
VerifiedAntisolvent ==
    [reagent_material_table |-> [j \in {0} |-> Constituent(M_ANTI, Rat(1, 1))],
     volume_added |-> RMul(Rat(501, 1), Float_1e_6)]

VerifiedStocks ==
    {[reagent_material_table |-> table, volume_added |-> Float_500e_6] : table \in
        {[j \in {0} |-> Constituent(M_ACID, Rat(1, 1))]}
        \cup {[j \in {0, 1} |-> IF j = 0 THEN Constituent(M_ORG, Rat(1, 1))
                                ELSE Constituent(M_ACID, Rat(acid, 1))] : acid \in {1, 3}}}

\* The reagent tables of the verified reactions: one stock solution or the
\* two mixtures, and the antisolvent.
VerifiedReagentTables ==
    {[i \in 0..Len(stocks) |-> IF i < Len(stocks) THEN stocks[i + 1] ELSE VerifiedAntisolvent] :
        stocks \in {<<stock>> : stock \in VerifiedStocks}
                   \cup {CHOOSE order \in Orders({stock \in VerifiedStocks :
                             Cardinality(DOMAIN stock.reagent_material_table) = 2}) : TRUE}}

\* The mole map (millimole) that the reagents of a reagent table give.
DispensedMmol(table) ==
    LET inchikeys == UNION {DOMAIN molarity_table(table[i]).val : i \in DOMAIN table}
    IN [ik \in inchikeys |->
           LET with == {i \in DOMAIN table : ik \in DOMAIN molarity_table(table[i]).val}
           IN RSum(with, [i \in with |->
                   RDiv(RMul(molarity_table(table[i]).val[ik], table[i].volume_added),
                        Float_1e_3)])]

\* ReactionsValid: reactions with an integer outcome and a mole map, the
\* nominal one or the one the reagents give.
VerifiedReactions ==
    LET Reaction(table, mmol_data) ==
            [identifier |-> "2020-01-01T10_00_R1",
             outcome |-> IntValue(4),
             reaction_time |-> Rat(600, 1),
             reaction_temperature |-> Rat(25, 1),
             experiment_version |-> "3.0",
             reagent_table |-> table,
             properties |-> [p \in {"mmol_data"} |-> mmol_data]]
    IN {Reaction(table, MmolData({M_ANTI, M_ORG, M_ACID})) : table \in VerifiedReagentTables}
       \cup {Reaction(table, DispensedMmol(table)) : table \in VerifiedReagentTables}

\* ConvexHull.df.drop_duplicates() as written to convexhull.csv
\* (export_csv.py:55) and read back.
ExportedTable(sch) ==
    [columns |-> InchikeysOf(space(sch).val), rows |-> DropDuplicates(df(sch).val)]

\* The stock solutions as an inventory with another density of the acid
\* records them: convexhull.csv is a file, which an earlier run may have
\* written.
StaleStocks ==
    LET acid == Material(M_ACID.obj, M_ACID.inchikey, M_ACID.mw, Rat(2, 1), M_ACID.category)
    IN {[reagent_material_table |-> table, volume_added |-> Float_500e_6] : table \in
           {[j \in {0} |-> Constituent(acid, Rat(1, 1))],
            [j \in {0, 1} |-> IF j = 0 THEN Constituent(M_ORG, Rat(1, 1))
                               ELSE Constituent(acid, Rat(1, 1))]}}

\* DfHull: the table of the hull of some of the stock solutions.
VerifiedTables ==
    {ExportedTable(from_reagent_set(reagents).val) : reagents \in
        UNION {Orders(S) : S \in (SUBSET VerifiedStocks \cup SUBSET StaleStocks) \ {{}}}}

VerifyIdle ==
    /\ vf_reactions = <<>>
    /\ vf_hull = None
    /\ vf_checked = 0
    /\ vf_log = <<>>
    /\ vf_pc = "idle"

VerifyCalled ==
    /\ vf_reactions \in SeqUpTo(VerifiedReactions, MaxVerified)
    /\ vf_hull \in VerifiedTables
    /\ vf_checked = 0
    /\ vf_log = <<>>
    /\ vf_pc = "loop"

\* One iteration of the loop of the run (verify_convexhull.py:178-183): the
\* verdicts are logged; an exception ends the run, and so does a verdict
\* that fails its assert.
VerifyReaction ==
    /\ vf_pc = "loop"
    /\ vf_checked < Len(vf_reactions)
    /\ LET r == vf_reactions[vf_checked + 1]
           params == get_checking_params(r, vf_hull)
           t_mol == [i \in Range(params.val.inchikeys) |->
                        params.val.target_molarity[
                            CHOOSE ii \in DOMAIN params.val.inchikeys :
                                params.val.inchikeys[ii] = i]]
           a_vol == RSum(DOMAIN params.val.ss_vols, params.val.ss_vols)
           forward == forward_check(params.val)
           backward == backward_check(t_mol, a_vol, vf_hull)
       IN IF params.exc # None
          THEN vf_log' = Append(vf_log, <<params.exc>>) /\ vf_pc' = "raised"
          ELSE IF ~forward
          THEN vf_log' = Append(vf_log, <<"FORWARD CHECK: FAILED", AssertionError>>)
               /\ vf_pc' = "raised"
          ELSE IF backward.exc # None
          THEN vf_log' = Append(vf_log, <<"FORWARD CHECK: PASSED", backward.exc>>)
               /\ vf_pc' = "raised"
          ELSE IF ~backward.val
          THEN vf_log' = Append(vf_log, <<"FORWARD CHECK: PASSED", "BACKWORD FAILED",
                                         AssertionError>>)
               /\ vf_pc' = "raised"
          ELSE vf_log' = Append(vf_log, <<"FORWARD CHECK: PASSED", "BACKWORD PASSED">>)
               /\ vf_pc' = "loop"
    /\ vf_checked' = vf_checked + 1
    /\ UNCHANGED <<vf_reactions, vf_hull>>

\* The loop is exhausted and the run ends.
VerifyDone ==
    /\ vf_pc = "loop"
    /\ vf_checked = Len(vf_reactions)
    /\ vf_pc' = "done"
    /\ UNCHANGED <<vf_reactions, vf_hull, vf_checked, vf_log>>

(***************************************************************************)
(* The grouping stage (plumbing.py:104-151)                                *)
(***************************************************************************)

Digits == {"0", "1", "2", "3", "4", "5", "6", "7", "8", "9"}

\* re.findall of a date pattern at the start of a string finds a match; d
\* in the pattern stands for \d.
MatchesDate(s, pattern) ==
    /\ Len(s) >= Len(pattern)
    /\ \A i \in 1..Len(pattern) :
           IF SubSeq(pattern, i, i) = "d" THEN SubSeq(s, i, i) \in Digits
           ELSE SubSeq(s, i, i) = SubSeq(pattern, i, i)

\* Reaction.experiment_header (schema.py:219-229): the date with the minute,
\* else the day.
experiment_header(identifier) ==
    IF MatchesDate(identifier, "dddd-dd-ddTdd_dd") THEN Return(SubSeq(identifier, 1, 16))
    ELSE IF MatchesDate(identifier, "dddd-dd-dd") THEN Return(SubSeq(identifier, 1, 10))
    ELSE Raise(AssertionError)

\* group_reactions(reactions, key_function).items() for a key function with
\* string values, keys[i] the key of reactions[i]: the strings are ranked
\* in their order, and the groups come in the order of the dict.
GroupItems(reactions, keys) ==
    LET order == SortedKeys(Range(keys))
        rank == [i \in DOMAIN reactions |-> CHOOSE n \in DOMAIN order : order[n] = keys[i]]
        groups == group_reactions([i \in DOMAIN reactions |-> i], rank)
    IN [n \in DOMAIN order |->
           [key |-> order[n],
            group |-> [m \in DOMAIN groups[n] |-> reactions[groups[n][m]]]]]

\* The header groups of the expver groups from the n-th on, in the order the
\* nested loops visit them (plumbing.py:106-110).  The headers of the valid
\* reactions are known not to raise (plumbing.py:55-56).
RECURSIVE HeaderGroupsFrom(_, _)
HeaderGroupsFrom(expver_items, n) ==
    IF n > Len(expver_items) THEN <<>>
    ELSE LET expver_group == expver_items[n].group
             header_to_group ==
                 GroupItems(expver_group,
                            [i \in DOMAIN expver_group |->
                                experiment_header(expver_group[i].identifier).val])
         IN [m \in DOMAIN header_to_group |->
                [expver |-> expver_items[n].key,
                 header |-> header_to_group[m].key,
                 header_group |-> header_to_group[m].group]]
            \o HeaderGroupsFrom(expver_items, n + 1)

HeaderGroups(reactions) ==
    HeaderGroupsFrom(GroupItems(reactions, [i \in DOMAIN reactions |->
                                               reactions[i].experiment_version]), 1)

\* x.properties["category_x_to_inchikey"].keys()
CategoryKeys(r) == DOMAIN r.properties["category_x_to_inchikey"]

\* A variant that takes the last of the reactions with the most keys.
representative_last(header_group) ==
    LET n == CHOOSE i \in DOMAIN header_group :
                 /\ \A j \in DOMAIN header_group :
                        Cardinality(CategoryKeys(header_group[j]))
                            <= Cardinality(CategoryKeys(header_group[i]))
                 /\ \A j \in (i + 1)..Len(header_group) :
                        Cardinality(CategoryKeys(header_group[j]))
                            < Cardinality(CategoryKeys(header_group[i]))
    IN header_group[n]

\* Lines 113-115: sorted(header_group, key=len(...), reverse=True)[0].  The
\* sort is stable, also when reversed: the first of the reactions with the
\* most keys.
representative(header_group) ==
    LET n == CHOOSE i \in DOMAIN header_group :
                 /\ \A j \in DOMAIN header_group :
                        Cardinality(CategoryKeys(header_group[j]))
                            <= Cardinality(CategoryKeys(header_group[i]))
                 /\ \A j \in 1..(i - 1) :
                        Cardinality(CategoryKeys(header_group[j]))
                            < Cardinality(CategoryKeys(header_group[i]))
    IN header_group[n]

\* set.add / set.union on a list that holds a set of Reagents: a reagent
\* that is in the set is not added.
RECURSIVE ReagentSetAdd(_, _)
ReagentSetAdd(members, reagents) ==
    IF reagents = <<>> THEN members
    ELSE ReagentSetAdd(IF reagent_in(members, Head(reagents))
                       THEN members ELSE Append(members, Head(reagents)),
                       Tail(reagents))

\* Lines 131-140: the reagents of the header group, from the n-th reaction
\* on, whose first identifier is not the antisolvent's.
RECURSIVE ReagentSetExceptAntisolvent(_, _, _, _)
ReagentSetExceptAntisolvent(header_group, n, antisolvent_identity, reagent_set) ==
    IF n > Len(header_group) THEN reagent_set
    ELSE LET values == ReagentValues(header_group[n])
             kept == SelectSeq(values, LAMBDA reagent :
                         SortedKeys(DOMAIN molarity_table(reagent).val)[1]
                             # antisolvent_identity)
         IN ReagentSetExceptAntisolvent(header_group, n + 1, antisolvent_identity,
                                        ReagentSetAdd(reagent_set, kept))

\* "expver-{}_{}".format(expver, fingerprint)
GroupKey(expver, wf3data) == "expver-" \o expver \o "_" \o wf3data.fingerprint

\* A variant that assigns the identifiers to the key.
GroupDictAssign(GroupDict, group_key, identifiers) ==
    DictPut(GroupDict, group_key, identifiers)

\* GroupDict[group_key] += identifiers on a defaultdict(list).
GroupDictAdd(GroupDict, group_key, identifiers) ==
    DictPut(GroupDict, group_key,
            (IF group_key \in DOMAIN GroupDict THEN GroupDict[group_key] ELSE <<>>)
                \o identifiers)

(***************************************************************************)
(* The reactions that are grouped                                          *)
(***************************************************************************)

\* Bound: the number of valid reactions.
NumValid == 3

\* The identifiers: the first reaction is of one experiment, the others of
\* an experiment of the next day.
StageIdentifier(n) ==
    "2020-01-0" \o (IF n <= 1 THEN "1" ELSE "2") \o "T10_00_R" \o ToString(n)

\* The protocol version: that of the first experiment, and that of the
\* later one.
StageVersion(n, later) == IF n <= 1 THEN "3.0" ELSE later

\* A stock solution of the materials, 1 gram or 1 milliliter of each, added
\* in 500 microliter.
StageStock(materials) ==
    [reagent_material_table |->
         [j \in 0..(Len(materials) - 1) |-> Constituent(materials[j + 1], Rat(1, 1))],
     volume_added |-> Float_500e_6]

\* What a well holds and what its record lists: the organic alone or with
\* the acid (a well that was given none of the acid has no reagent of it),
\* under the category columns of the organic and the acid, of the organic
\* alone, or of the organic and an inorganic; and the organic with a
\* solution of the organic in the antisolvent.
StageKinds ==
    {[stocks |-> << <<M_ORG>> >>, categories |-> {"organic_0", "acid_0"}],
     [stocks |-> << <<M_ORG>>, <<M_ACID>> >>, categories |-> {"organic_0", "acid_0"}],
     [stocks |-> << <<M_ORG>> >>, categories |-> {"organic_0"}],
     [stocks |-> << <<M_ORG>> >>, categories |-> {"organic_0", "inorganic_0"}],
     [stocks |-> << <<M_ACID>>, <<M_ANTI, M_ORG>> >>, categories |-> {"organic_0", "acid_0"}]}

StageReaction(n, kind, later) ==
    [identifier |-> StageIdentifier(n),
     outcome |-> IntValue(4),
     reaction_time |-> Rat(600, 1),
     reaction_temperature |-> Rat(25, 1),
     experiment_version |-> StageVersion(n, later),
     reagent_table |-> [i \in 0..Len(kind.stocks) |->
                           IF i < Len(kind.stocks) THEN StageStock(kind.stocks[i + 1])
                           ELSE VerifiedAntisolvent],
     properties |-> [p \in {"mmol_data", "category_x_to_inchikey"} |->
                        IF p = "mmol_data" THEN MmolData({M_ANTI, M_ORG, M_ACID})
                        ELSE [c \in kind.categories |->
                                 IF c = "organic_0" THEN M_ORG.inchikey
                                 ELSE IF c = "acid_0" THEN M_ACID.inchikey
                                 ELSE M_INORG.inchikey]]]

\* The reactions with the identifiers ids, each of its kind, in an order.
StageReactions(order, kinds, later) ==
    [i \in DOMAIN order |-> StageReaction(order[i], kinds[order[i]], later)]

\* list(ReactionsValid.values()) in two orders: some of the reactions, each
\* of some kind, by ascending identifier and in any order.
StageOrderings ==
    UNION {UNION {{<<StageReactions(KeyOrder(ids), kinds, later),
                     StageReactions(order, kinds, later)>> :
                       order \in Orders(ids), later \in {"3.0", "3.1"}} :
                   kinds \in [ids -> StageKinds]} :
           ids \in SUBSET (1..NumValid) \ {{}}}

StageIdle ==
    /\ st_orderings = <<>>
    /\ st_run = 0
    /\ st_done = 0
    /\ st_GroupDict = <<>>
    /\ st_ConvexHull = NoHull
    /\ st_exc = None
    /\ st_outcomes = <<>>
    /\ st_representatives = <<>>
    /\ st_pc = "idle"

\* GroupDict = defaultdict(list); ConvexHull = None (plumbing.py:104-105)
StageCalled ==
    /\ st_orderings \in StageOrderings
    /\ st_run = 1
    /\ st_done = 0
    /\ st_GroupDict = <<>>
    /\ st_ConvexHull = NoHull
    /\ st_exc = None
    /\ st_outcomes = <<>>
    /\ st_representatives = <<>>
    /\ st_pc = "loop"

\* The end of the body for one header group: the exception raised, or the
\* new ConvexHull with the key and the identifiers added to GroupDict
\* (plumbing.py:143-149).
HeaderGroupEnd(item, wf3data, combined) ==
    IF combined.exc # None
    THEN [exc |-> combined.exc, ConvexHull |-> NoHull, group_key |-> "", identifiers |-> <<>>]
    ELSE [exc |-> None,
          ConvexHull |-> <<combined.val>>,
          group_key |-> GroupKey(item.expver, wf3data),
          identifiers |-> [n \in DOMAIN item.header_group |->
                              item.header_group[n].identifier]]

\* Lines 143-146: ConvexHull = sch, or the combination with sch.
Accumulate(ConvexHull, sch) ==
    IF sch.exc # None \/ ConvexHull = NoHull THEN sch ELSE combine(ConvexHull[1], sch.val)

\* Lines 131-149 with the WF3Data of the representative: the set of
\* reagents is iterated in some order.
HeaderGroupHull(item, wf3data, ConvexHull) ==
    IF wf3data.exc # None THEN {HeaderGroupEnd(item, None, wf3data)}
    ELSE {HeaderGroupEnd(item, wf3data.val, Accumulate(ConvexHull, from_reagent_set(reagents))) :
             reagents \in Orders(Range(ReagentSetExceptAntisolvent(
                             item.header_group, 1, wf3data.val.antisolvent_identity, <<>>)))}

\* A variant without the check of the keys.
HeaderGroupUnchecked(item, representative_reaction, ConvexHull) ==
    HeaderGroupHull(item, from_reaction(representative_reaction), ConvexHull)

\* Lines 117-129 with the representative: ValueError when the keys of a
\* reaction of the group are not among those of the representative.
HeaderGroupChecked(item, representative_reaction, ConvexHull) ==
    HeaderGroupHull(item,
                    IF \A n \in DOMAIN item.header_group :
                           CategoryKeys(item.header_group[n])
                               \subseteq CategoryKeys(representative_reaction)
                    THEN from_reaction(representative_reaction)
                    ELSE Raise(ValueError),
                    ConvexHull)

\* The body of the loops for one header group (plumbing.py:111-149).  An
\* exception ends the run and leaves GroupDict and ConvexHull as they are.
StageHeaderGroup ==
    /\ st_pc = "loop"
    /\ st_done < Len(HeaderGroups(st_orderings[st_run]))
    /\ \E item \in {HeaderGroups(st_orderings[st_run])[st_done + 1]} :
         \E end \in HeaderGroupChecked(item, representative(item.header_group), st_ConvexHull) :
             IF end.exc # None
             THEN /\ st_exc' = end.exc
                  /\ st_pc' = "raised"
                  /\ UNCHANGED <<st_GroupDict, st_ConvexHull>>
             ELSE /\ st_ConvexHull' = end.ConvexHull
                  /\ st_GroupDict' = GroupDictAdd(st_GroupDict, end.group_key, end.identifiers)
                  /\ UNCHANGED <<st_exc, st_pc>>
    /\ st_representatives' =
           Append(st_representatives,
                  representative(HeaderGroups(st_orderings[st_run])[st_done + 1].header_group))
    /\ st_done' = st_done + 1
    /\ UNCHANGED <<st_orderings, st_run, st_outcomes>>

\* The run ends, by an exception or after the last header group with
\* `assert ConvexHull is not None` (plumbing.py:151); the stage then runs on
\* the second order of the reactions.
StageEnd ==
    /\ \/ st_pc = "raised"
       \/ st_pc = "loop" /\ st_done = Len(HeaderGroups(st_orderings[st_run]))
    /\ st_outcomes' =
           Append(st_outcomes,
                  [exc |-> IF st_pc = "raised" THEN st_exc
                           ELSE IF st_ConvexHull = NoHull THEN AssertionError ELSE None,
                   GroupDict |-> st_GroupDict,
                   ConvexHull |-> st_ConvexHull])
    /\ IF st_run = 1
       THEN /\ st_run' = 2
            /\ st_done' = 0
            /\ st_GroupDict' = <<>>
            /\ st_ConvexHull' = NoHull
            /\ st_exc' = None
            /\ st_representatives' = <<>>
            /\ st_pc' = "loop"
       ELSE /\ st_pc' = "done"
            /\ UNCHANGED <<st_run, st_done, st_GroupDict, st_ConvexHull, st_exc,
                           st_representatives>>
    /\ UNCHANGED st_orderings

(***************************************************************************)
(* The construction of a Reagent (schema.py:123-159)                       *)
(***************************************************************************)

\* A second Material object of the organic's identifier: what json_load
\* builds for every constituent it decodes, and Material.from_csv for a
\* repeated row of the inventory.  Material defines __hash__ by the
\* identifier and no __eq__ (schema.py:40-47), so the two are not equal.
M_ORG_DECODED == Material(6, M_ORG.inchikey, M_ORG.mw, M_ORG.density, M_ORG.category)

\* The constituents a Reagent is constructed with.
ReagentConstituents ==
    {ReagentMaterialInit(material, Num(Rat(amount, 1)), Str(amount_unit)).val :
        material \in {M_ORG, M_ACID, M_ORG_DECODED}, amount \in 1..2,
        amount_unit \in {"gram", "milliliter"}}

\* The tables of one or two constituents, with the keys of rm_dict.
ReagentMaterialTables ==
    UNION {[0..(n - 1) -> ReagentConstituents] : n \in 1..2}

\* What a caller knows of the preparation volume, in liter: nothing, or
\* the cell of the record (parser.py:88-96, 124-126).
PreparationVolumes == {"unknown", "None", "0", "1"}

\* The keyword arguments of the call: those of get_reagent_table, which
\* passes what it knows of the preparation volume (parser.py:128-132), or
\* the table and the dispensed volume only.
CallKwargs(table, volume_prepare) ==
    IF volume_prepare = "unknown"
    THEN [kw \in {"reagent_material_table", "volume_added"} |->
             IF kw = "reagent_material_table" THEN table ELSE Float_500e_6]
    ELSE ReagentKwargs(table, Rat(500, 1), volume_prepare)

ReagentIdle ==
    /\ rg_table = <<>>
    /\ rg_prepare = ""
    /\ rg_reagent = None
    /\ rg_molarity = None
    /\ rg_pc = "idle"

ReagentCalled ==
    /\ rg_table \in ReagentMaterialTables
    /\ rg_prepare \in PreparationVolumes
    /\ rg_reagent = None
    /\ rg_molarity = None
    /\ rg_pc = "called"

\* Reagent(...)
ReagentConstruct ==
    /\ rg_pc = "called"
    /\ rg_reagent' = ReagentInit(CallKwargs(rg_table, rg_prepare))
    /\ rg_pc' = IF rg_reagent'.exc = None THEN "constructed" ELSE "raised"
    /\ UNCHANGED <<rg_table, rg_prepare, rg_molarity>>

\* reagent.molarity_table
ReagentMolarityTable ==
    /\ rg_pc = "constructed"
    /\ rg_molarity' = molarity_table(rg_reagent.val)
    /\ rg_pc' = "read"
    /\ UNCHANGED <<rg_table, rg_prepare, rg_reagent>>

(***************************************************************************)
(* Sets of Reagents (schema.py:169-182, 215-217)                           *)
(***************************************************************************)

\* Bound: the number of reagents of the reaction.
MaxTableSize == 3

\* 10 milliliter of a solution of the organic in the antisolvent: the
\* organic (density 1 g/mL) is weighed in microgram, the antisolvent fills
\* the volume.
DiluteStock(microgram, volume_added) ==
    [reagent_material_table |->
         [j \in {0, 1} |->
             IF j = 0 THEN Constituent(M_ORG, Rat(microgram, 1000000))
             ELSE Constituent(M_ANTI, Rat(10000000 - microgram, 1000000))],
     volume_added |-> volume_added]

\* Solutions of 4e-6, 6e-6 and 5e-4 mol/L of the organic, added in 500 or
\* 501 microliter.
DiluteStocks ==
    {DiluteStock(microgram, volume_added) :
        microgram \in {8, 12, 1000},
        volume_added \in {Float_500e_6, RMul(Rat(501, 1), Float_1e_6)}}

ReagentSetIdle ==
    /\ rs_reagents = <<>>
    /\ rs_set = <<>>
    /\ rs_pc = "idle"

ReagentSetCalled ==
    /\ rs_reagents \in SeqUpTo(DiluteStocks, MaxTableSize) \ {<<>>}
    /\ rs_set = <<>>
    /\ rs_pc = "called"

\* set([r for r in self.reagent_table.values()])
ReagentSetReturn ==
    /\ rs_pc = "called"
    /\ rs_set' = ReagentSetAdd(<<>>, rs_reagents)
    /\ rs_pc' = "returned"
    /\ UNCHANGED rs_reagents

(***************************************************************************)
(* Specifications                                                          *)
(***************************************************************************)

InitGroup == GroupCalled /\ ClassifyIdle /\ ParseIdle /\ CollectIdle /\
    WF3Idle /\ FoldIdle /\ VerifyIdle /\ StageIdle /\ ReagentIdle /\
    ReagentSetIdle /\ HullIdle
NextGroup ==
    GroupReactions /\ UNCHANGED <<cc_vars, p_vars, cr_vars, wf_vars, fold_vars, vf_vars, st_vars, rg_vars, rs_vars, h_vars>>
SpecGroup == InitGroup /\ [][NextGroup]_vars

InitClassify == ClassifyCalled /\ GroupIdle /\ ParseIdle /\ CollectIdle /\
    WF3Idle /\ FoldIdle /\ VerifyIdle /\ StageIdle /\ ReagentIdle /\
    ReagentSetIdle /\ HullIdle
NextClassify ==
    ClassifyColumn /\ UNCHANGED <<gr_vars, p_vars, cr_vars, wf_vars, fold_vars, vf_vars, st_vars, rg_vars, rs_vars, h_vars>>
SpecClassify == InitClassify /\ [][NextClassify]_vars

InitParse == ParseCalled /\ GroupIdle /\ ClassifyIdle /\ CollectIdle /\
    WF3Idle /\ FoldIdle /\ VerifyIdle /\ StageIdle /\ ReagentIdle /\
    ReagentSetIdle /\ HullIdle
NextParse ==
    RecordToReaction /\ UNCHANGED <<gr_vars, cc_vars, cr_vars, wf_vars, fold_vars, vf_vars, st_vars, rg_vars, rs_vars, h_vars>>
SpecParse == InitParse /\ [][NextParse]_vars

InitCollect == CollectCalled /\ GroupIdle /\ ClassifyIdle /\ ParseIdle /\
    WF3Idle /\ FoldIdle /\ VerifyIdle /\ StageIdle /\ ReagentIdle /\
    ReagentSetIdle /\ HullIdle
NextCollect ==
    \/ CollectRecord /\ UNCHANGED <<gr_vars, cc_vars, p_vars, wf_vars, fold_vars, vf_vars, st_vars, rg_vars, rs_vars, h_vars>>
    \/ CollectReturn /\ UNCHANGED <<gr_vars, cc_vars, p_vars, wf_vars, fold_vars, vf_vars, st_vars, rg_vars, rs_vars, h_vars>>
SpecCollect == InitCollect /\ [][NextCollect]_vars

InitWF3 == WF3Called /\ GroupIdle /\ ClassifyIdle /\ ParseIdle /\
    CollectIdle /\ FoldIdle /\ VerifyIdle /\ StageIdle /\ ReagentIdle /\
    ReagentSetIdle /\ HullIdle
NextWF3 ==
    FromReaction /\ UNCHANGED <<gr_vars, cc_vars, p_vars, cr_vars, fold_vars, vf_vars, st_vars, rg_vars, rs_vars, h_vars>>
SpecWF3 == InitWF3 /\ [][NextWF3]_vars

InitFold == FoldCalled /\ GroupIdle /\ ClassifyIdle /\ ParseIdle /\
    CollectIdle /\ WF3Idle /\ VerifyIdle /\ StageIdle /\ ReagentIdle /\
    ReagentSetIdle /\ HullIdle
NextFold ==
    \/ FoldHeaderGroup /\ UNCHANGED <<gr_vars, cc_vars, p_vars, cr_vars, wf_vars, vf_vars, st_vars, rg_vars, rs_vars, h_vars>>
    \/ FoldDone /\ UNCHANGED <<gr_vars, cc_vars, p_vars, cr_vars, wf_vars, vf_vars, st_vars, rg_vars, rs_vars, h_vars>>
SpecFold == InitFold /\ [][NextFold]_vars

InitVerify == VerifyCalled /\ GroupIdle /\ ClassifyIdle /\ ParseIdle /\
    CollectIdle /\ WF3Idle /\ FoldIdle /\ StageIdle /\ ReagentIdle /\
    ReagentSetIdle /\ HullIdle
NextVerify ==
    \/ VerifyReaction /\ UNCHANGED <<gr_vars, cc_vars, p_vars, cr_vars, wf_vars, fold_vars, st_vars, rg_vars, rs_vars, h_vars>>
    \/ VerifyDone /\ UNCHANGED <<gr_vars, cc_vars, p_vars, cr_vars, wf_vars, fold_vars, st_vars, rg_vars, rs_vars, h_vars>>
SpecVerify == InitVerify /\ [][NextVerify]_vars

InitStage == StageCalled /\ GroupIdle /\ ClassifyIdle /\ ParseIdle /\
    CollectIdle /\ WF3Idle /\ FoldIdle /\ VerifyIdle /\ ReagentIdle /\
    ReagentSetIdle /\ HullIdle
NextStage ==
    \/ StageHeaderGroup /\ UNCHANGED <<gr_vars, cc_vars, p_vars, cr_vars, wf_vars, fold_vars, vf_vars, rg_vars, rs_vars, h_vars>>
    \/ StageEnd /\ UNCHANGED <<gr_vars, cc_vars, p_vars, cr_vars, wf_vars, fold_vars, vf_vars, rg_vars, rs_vars, h_vars>>
SpecStage == InitStage /\ [][NextStage]_vars

InitReagent == ReagentCalled /\ GroupIdle /\ ClassifyIdle /\ ParseIdle /\
    CollectIdle /\ WF3Idle /\ FoldIdle /\ VerifyIdle /\ StageIdle /\
    ReagentSetIdle /\ HullIdle
NextReagent ==
    \/ ReagentConstruct /\ UNCHANGED <<gr_vars, cc_vars, p_vars, cr_vars, wf_vars, fold_vars, vf_vars, st_vars, rs_vars, h_vars>>
    \/ ReagentMolarityTable /\ UNCHANGED <<gr_vars, cc_vars, p_vars, cr_vars, wf_vars, fold_vars, vf_vars, st_vars, rs_vars, h_vars>>
SpecReagent == InitReagent /\ [][NextReagent]_vars

InitReagentSet == ReagentSetCalled /\ GroupIdle /\ ClassifyIdle /\
    ParseIdle /\ CollectIdle /\ WF3Idle /\ FoldIdle /\ VerifyIdle /\
    StageIdle /\ ReagentIdle /\ HullIdle
NextReagentSet ==
    ReagentSetReturn /\ UNCHANGED <<gr_vars, cc_vars, p_vars, cr_vars, wf_vars, fold_vars, vf_vars, st_vars, rg_vars, h_vars>>
SpecReagentSet == InitReagentSet /\ [][NextReagentSet]_vars

InitHull == HullCalled /\ GroupIdle /\ ClassifyIdle /\ ParseIdle /\
    CollectIdle /\ WF3Idle /\ FoldIdle /\ VerifyIdle /\ StageIdle /\
    ReagentIdle /\ ReagentSetIdle
NextHull ==
    \/ BuildHulls /\ UNCHANGED <<gr_vars, cc_vars, p_vars, cr_vars, wf_vars, fold_vars, vf_vars, st_vars, rg_vars, rs_vars>>
    \/ CombineHulls /\ UNCHANGED <<gr_vars, cc_vars, p_vars, cr_vars, wf_vars, fold_vars, vf_vars, st_vars, rg_vars, rs_vars>>
SpecHull == InitHull /\ [][NextHull]_vars

Init ==
    \/ InitGroup
    \/ InitClassify
    \/ InitParse
    \/ InitCollect
    \/ InitWF3
    \/ InitFold
    \/ InitVerify
    \/ InitStage
    \/ InitReagent
    \/ InitReagentSet
    \/ InitHull

Next ==
    \/ NextGroup
    \/ NextClassify
    \/ NextParse
    \/ NextCollect
    \/ NextWF3
    \/ NextFold
    \/ NextVerify
    \/ NextStage
    \/ NextReagent
    \/ NextReagentSet
    \/ NextHull

Spec == Init /\ [][Next]_vars

(***************************************************************************)
(* Claims                                                                  *)
(***************************************************************************)

\* Sum of f[x] over the finite set S.
RECURSIVE SumOver(_, _)
SumOver(S, f) ==
    IF S = {} THEN 0
    ELSE LET x == CHOOSE y \in S : TRUE IN f[x] + SumOver(S \ {x}, f)

\* C1: group_reactions returns a partition of its input: every element of
\* the input occurs in the buckets exactly as often as in the input (the
\* buckets' multiset union is the input), all its occurrences are in one
\* bucket, and every member of a bucket has the bucket's key.  Keys are
\* totally ordered, as the strings both callers group by.
C1_Partition ==
    gr_pc = "returned" =>
        /\ \A e \in ReactionIds :
              SumOver(DOMAIN gr_result,
                      [k \in DOMAIN gr_result |-> CountIn(e, gr_result[k])])
                  = CountIn(e, gr_reactions)
        /\ \A e \in Range(gr_reactions) :
              Cardinality({k \in DOMAIN gr_result : e \in Range(gr_result[k])}) = 1
        /\ \A k \in DOMAIN gr_result :
              \A i \in DOMAIN gr_result[k] : gr_key[gr_result[k][i]] = k

\* A call returned for a list that was not sorted by key, holds one reaction
\* twice and falls into two buckets.
C1_Witness ==
    /\ gr_pc = "returned"
    /\ Cardinality(DOMAIN gr_result) = 2
    /\ \E i, j \in DOMAIN gr_reactions : i < j /\ gr_reactions[i] = gr_reactions[j]
    /\ \E i, j \in DOMAIN gr_reactions :
          i < j /\ gr_key[gr_reactions[j]] < gr_key[gr_reactions[i]]

\* The patterns a raw-prefixed column name can match before the last branch:
\* reagent, mmol-by-inchikey, molarity-by-inchikey, inchikey-category, and
\* the denylisted useless names.
KnownRawPattern(cname) ==
    \/ is_column_useless(cname)
    \/ StartsWith(cname, "_raw_reagent")
    \/ StartsWith(cname, "_raw_mmol") /\ Count(cname, "-") = 2
    \/ StartsWith(cname, "_raw_molarity") /\ Count(cname, "-") = 2
    \/ EndsWith(Lower(cname), "inchikey")

\* A name with the raw-data prefix that matches none of the known patterns.
UnmatchedRaw(cname) == StartsWith(cname, "_raw") /\ ~KnownRawPattern(cname)

C4_BatchNeverAborts ==
    cr_pc # "raised"

\* The record differs from the well-formed record in volume cells only,
\* and these hold numbers or are empty.
OnlyVolumesDiffer(record) ==
    /\ DOMAIN record = Range(ColumnOrder)
    /\ \A k \in Range(ColumnOrder) \ VolumeColumns : record[k] = WellFormedCells[k]
    /\ \A k \in VolumeColumns : record[k].t \in {"num", "nan"}

\* The volume the record dispenses, in liter.
DispensedVolume(record) ==
    RSum(VolumeColumns,
         [k \in VolumeColumns |->
             IF record[k].t = "num" THEN RMul(record[k].q, Float_1e_6) ELSE RZero])

\* C5 (as stated): a record that dispenses more than 1e-5 L gives a Reaction
\* whose total volume exceeds 1e-5 L, and a record that dispenses at most
\* 1e-5 L is rejected with a parse error.  The code violates it.
C5_VolumeThreshold ==
    (p_pc # "called" /\ OnlyVolumesDiffer(p_record)) =>
        IF RGt(DispensedVolume(p_record), Float_1e_5)
        THEN /\ p_result.exc = None
             /\ RGt(total_volume(p_result.val), Float_1e_5)
        ELSE p_result.exc = ReactionParserError

\* The only reagent of the record is in slot 0 and was dispensed at 0.5
\* microliter.
OnlyReagentHalfMicroliter(record) ==
    /\ OnlyVolumesDiffer(record)
    /\ record[ColVolume(0)] = Num(Rat(1, 2))
    /\ \A k \in VolumeColumns \ {ColVolume(0)} : record[k] = NaN

\* C6 (as stated): a record whose only reagent was dispensed at 0.5
\* microliter has its slot skipped and is rejected with a parse error for
\* its total volume.  The code violates it.
C6_HalfMicroliterRejected ==
    (p_pc # "called" /\ OnlyReagentHalfMicroliter(p_record)) =>
        /\ SlotVolume(p_record, 0).tag = "skip"
        /\ p_result.exc = ReactionParserError

\* The reagents of the reaction with exactly one constituent and a
\* volume_added above 500 microliter (volume_added is in liter).
C7_Candidates ==
    {i \in DOMAIN wf_reaction.reagent_table :
        LET reagent == wf_reaction.reagent_table[i]
        IN /\ Cardinality(DOMAIN reagent.reagent_material_table) = 1
           /\ reagent.volume_added[1] * 1000000 > 500 * reagent.volume_added[2]}

\* C7: WF3Data.from_reaction returns a WF3Data only when exactly one reagent
\* has one constituent and more than 500 microliter; with no such reagent,
\* or several, it fails an assertion and returns nothing.
C7_ExactlyOneAntisolvent ==
    wf_pc \in {"returned", "raised"} =>
        /\ wf_pc = "returned" => Cardinality(C7_Candidates) = 1
        /\ Cardinality(C7_Candidates) # 1 =>
               /\ wf_pc = "raised"
               /\ wf_result = Raise(AssertionError)

\* A WF3Data is returned for a reaction with two single-constituent
\* reagents, one of them added in exactly 500 microliter.
C7_Witness ==
    /\ wf_pc = "returned"
    /\ Cardinality(C7_Candidates) = 1
    /\ \E i \in DOMAIN wf_reaction.reagent_table \ C7_Candidates :
           LET reagent == wf_reaction.reagent_table[i]
           IN /\ Cardinality(DOMAIN reagent.reagent_material_table) = 1
              /\ reagent.volume_added = Rat(500, 1000000)

\* The identifiers of a category among the constituents of the reaction,
\* the antisolvent's identifier excepted.
C8_Identifiers(category) ==
    LET constituents ==
            UNION {Range(wf_reaction.reagent_table[i].reagent_material_table) :
                       i \in DOMAIN wf_reaction.reagent_table}
    IN {rm.material.inchikey :
            rm \in {c \in constituents : c.material.category = category}}
           \ {wf_result.val.antisolvent_identity}

\* C8: the fingerprint is the numbers of identifiers in the published
\* organic, inorganic, solvent and acid maps joined with "%"; the maps hold
\* the identifiers of the reaction per category without the antisolvent's,
\* so one organic plus the antisolvent gives "1%0%0%0".
C8_Fingerprint ==
    wf_pc = "returned" =>
        LET data == wf_result.val
        IN /\ data.fingerprint =
                  ToString(Cardinality(DOMAIN data.organic)) \o "%"
                      \o ToString(Cardinality(DOMAIN data.inorganic)) \o "%"
                      \o ToString(Cardinality(DOMAIN data.solvent)) \o "%"
                      \o ToString(Cardinality(DOMAIN data.acid))
           /\ DOMAIN data.organic = C8_Identifiers("organic")
           /\ DOMAIN data.inorganic = C8_Identifiers("inorganic")
           /\ DOMAIN data.solvent = C8_Identifiers("solvent")
           /\ DOMAIN data.acid = C8_Identifiers("acid")
           /\ (/\ Cardinality(C8_Identifiers("organic")) = 1
               /\ C8_Identifiers("inorganic") = {}
               /\ C8_Identifiers("solvent") = {}
               /\ C8_Identifiers("acid") = {}) => data.fingerprint = "1%0%0%0"

\* A WF3Data is returned for a reaction of one organic plus the
\* antisolvent, a solvent.
C8_Witness ==
    /\ wf_pc = "returned"
    /\ wf_result.val.antisolvent_identity = M_ANTI.inchikey
    /\ Cardinality(DOMAIN wf_result.val.organic) = 1
    /\ wf_result.val.fingerprint = "1%0%0%0"

\* C9 (as stated): for every hull A, two identical rows in its table
\* included, combine(A, A) == A.  The code violates it for a hull that
\* from_reagent_set built with two identical rows.
C9_Idempotent ==
    h_pc = "combined" => h_out.aa_eq_a = Return(TRUE)

\* The rows of a hull as dicts over the given columns, 0 on the columns the
\* hull does not have.
C10_Projected(sch, columns) ==
    {[c \in Range(columns) |->
         IF c \in Range(sch.columns)
         THEN sch.rows[n][CHOOSE k \in DOMAIN sch.columns : sch.columns[k] = c]
         ELSE RZero] : n \in DOMAIN sch.rows}

\* C10: combine(A, B) == combine(B, A) and combine(combine(A, B), C) ==
\* combine(A, combine(B, C)); the axes of combine(A, B) are the union of
\* the axes of A and B, each once, sorted by identifier; its rows are the
\* rows of A and B with 0 on the axes they lack, each row once.
C10_CommutativeAssociative ==
    h_pc = "combined" =>
        LET A == h_hulls[1].val
            B == h_hulls[2].val
            ab == h_out.ab.val
            axes == Range(A.space) \cup Range(B.space)
        IN /\ h_out.ab_eq_ba = Return(TRUE)
           /\ h_out.ab_c_eq_a_bc = Return(TRUE)
           /\ Range(ab.space) = axes
           /\ Len(ab.space) = Cardinality(axes)
           /\ \A i, j \in DOMAIN ab.space :
                  i < j => StrLt(ab.space[i].inchikey, ab.space[j].inchikey)
           /\ ab.columns = [n \in DOMAIN ab.space |-> ab.space[n].inchikey]
           /\ C10_Projected(ab, ab.columns)
                  = C10_Projected(A, ab.columns) \cup C10_Projected(B, ab.columns)
           /\ Len(ab.rows) = Cardinality(C10_Projected(ab, ab.columns))

\* Hulls with different axes were combined, a row of A and a row of B fell
\* together, and C brought a further axis.
C10_Witness ==
    /\ h_pc = "combined"
    /\ h_hulls[1].val.columns # h_hulls[2].val.columns
    /\ Len(h_out.ab.val.rows) < Len(h_hulls[1].val.rows) + Len(h_hulls[2].val.rows)
    /\ Len(h_out.ab_c.val.columns) > Len(h_out.ab.val.columns)

\* A combine step has been taken: the sampling space held a hull before the
\* last header group and the combination did not raise.
C11_Combined ==
    fold_pc \in {"loop", "done"} /\ fold_before # NoHull

\* C11: a combine step of the accumulation never shrinks the sampling space:
\* the axes before the step are axes after it, every row before the step is
\* a row after it with 0 on the axes it did not have, and the number of
\* distinct rows does not decrease.
C11_NeverShrinks ==
    C11_Combined =>
        LET before == fold_before[1]
            after == fold_hull[1]
        IN /\ Range(before.columns) \subseteq Range(after.columns)
           /\ Range(InchikeysOf(before.space)) \subseteq Range(InchikeysOf(after.space))
           /\ C10_Projected(before, after.columns) \subseteq C10_Projected(after, after.columns)
           /\ Cardinality(Range(before.rows)) <= Cardinality(Range(after.rows))

\* A combine step that added an axis and a row to a hull that had rows.
C11_Witness ==
    /\ C11_Combined
    /\ Range(fold_before[1].columns) # Range(fold_hull[1].columns)
    /\ Cardinality(Range(fold_before[1].rows)) > 0
    /\ Cardinality(Range(fold_before[1].rows)) < Cardinality(Range(fold_hull[1].rows))

\* The molarities a WF3Data publishes, over the identifiers of its four
\* categories.
PublishedMolarity(data) ==
    [ik \in UNION {DOMAIN data[cat] : cat \in Range(EscalateCategories)} |->
        data[CHOOSE cat \in Range(EscalateCategories) : ik \in DOMAIN data[cat]][ik]]

\* The molarities reconstructed from the reagents of the alpha vial agree
\* with the molarities of the WF3Data of the reaction: on every identifier
\* within 1e-5 of the WF3Data molarity, relatively.
ForwardAgrees(r) ==
    LET published == PublishedMolarity(from_reaction(r).val)
        reconstructed == get_reaction_molarity_table(r).val
    IN /\ DOMAIN published = DOMAIN reconstructed
       /\ \A ik \in DOMAIN published :
              ~RGt(RAbs(RSub(reconstructed[ik], published[ik])),
                   RMul(Float_1e_5, RAbs(published[ik])))

\* C12: the forward check of a reaction passes if and only if the
\* volume-weighted average of the stock molarities of its reagents other
\* than the antisolvent agrees, on every identifier, with the molarity of
\* the reaction's WF3Data within 1e-5 relative tolerance.
C12_ForwardAgainstWF3Data ==
    \A n \in DOMAIN vf_log :
        /\ vf_log[n][1] = "FORWARD CHECK: PASSED" => ForwardAgrees(vf_reactions[n])
        /\ vf_log[n][1] = "FORWARD CHECK: FAILED" => ~ForwardAgrees(vf_reactions[n])

\* C13: a reaction whose backward check is infeasible is reported and the
\* run goes on to the remaining reactions: it is not the reaction that ends
\* the run.
C13_InfeasibleNeverAborts ==
    \A n \in DOMAIN vf_log :
        "BACKWORD FAILED" \in Range(vf_log[n]) => ~(vf_pc = "raised" /\ n = Len(vf_log))

\* C14: the grouping stage run on two orders of the same valid reactions
\* ends the same way, and when it completes the buckets hold the same
\* identifiers under the same keys and the sampling spaces are equal.
C14_OrderIndependent ==
    st_pc = "done" =>
        LET first == st_outcomes[1]
            second == st_outcomes[2]
        IN /\ (first.exc = None) <=> (second.exc = None)
           /\ first.exc = None /\ second.exc = None =>
                  /\ DOMAIN first.GroupDict = DOMAIN second.GroupDict
                  /\ \A group_key \in DOMAIN first.GroupDict \cap DOMAIN second.GroupDict :
                         Range(first.GroupDict[group_key]) = Range(second.GroupDict[group_key])
                  /\ hull_eq(first.ConvexHull[1], second.ConvexHull[1]).val


\* C15: a Reagent never holds two constituents of the same Material
\* identifier: the construction from a table with two constituents of one
\* identifier fails, also when they carry distinct Material objects.
C15_SameIdentifierFails ==
    /\ rg_pc \in {"constructed", "raised", "read"}
    /\ \E j, k \in DOMAIN rg_table :
           /\ j # k
           /\ rg_table[j].material.inchikey = rg_table[k].material.inchikey
    => rg_reagent.exc # None


\* C16: molarity_table is a computed table exactly when the preparation
\* volume of the Reagent is known and positive; a Reagent without a known
\* preparation volume has no computed table.
C16_DefinedByPreparationVolume ==
    rg_pc = "read" => (rg_prepare = "1" <=> rg_molarity.exc = None)


\* The record is the well-formed record, except that a preparation volume
\* or its unit is missing (NaN, or no such column) for slot 0 or slot 1,
\* both of which have an accepted volume and an accepted constituent.
MissingPreparation(record) ==
    /\ \A k \in Range(ColumnOrder) \ (PrepareColumns \cup PrepareUnitColumns) :
           k \in DOMAIN record /\ record[k] = WellFormedCells[k]
    /\ \E k \in {ColPrepare(0), ColPrepare(1), ColPrepareUnit(0), ColPrepareUnit(1)} :
           k \notin DOMAIN record \/ isna(record[k])

\* C17 (as stated): a slot with an accepted volume and constituent whose
\* preparation volume or unit is missing raises no error: the slot becomes
\* a Reagent and the record parses into a Reaction.  The code violates it.
C17_MissingPreparationParses ==
    (p_pc # "called" /\ MissingPreparation(p_record)) =>
        /\ p_result.exc = None
        /\ DOMAIN p_result.val.reagent_table = {0, 1}

\* C18 (as stated): a record whose protocol version is absent or a missing
\* value raises ReactionParserError.  The code violates it.
C18_MissingVersionIsParseError ==
    (/\ p_pc # "called"
     /\ \/ experiment_version_column \notin DOMAIN p_record
        \/ isna(p_record[experiment_version_column])) =>
        p_result.exc = ReactionParserError

\* The outcome of the record is not present, is a missing value or is not
\* integer-convertible.
OutcomeUnusable(record) ==
    \/ target_column \notin DOMAIN record
    \/ record[target_column].t \in {"nan", "str"}

\* C19 (as stated): the outcome a Reaction is given is an integer, or None
\* when the caller tolerates missing outcomes and the record's outcome is
\* unusable; without the tolerance such a record raises
\* ReactionParserError.  The code violates it.
C19_OutcomeIntegerOrNone ==
    p_pc # "called" =>
        /\ LET outcome == ParseOutcome(p_record, p_ignore)
           IN outcome.exc = None =>
                  \/ outcome.val.t = "int"
                  \/ /\ p_ignore
                     /\ OutcomeUnusable(p_record)
                     /\ outcome.val = NoneValue
        /\ p_result.exc = None =>
               p_result.val.outcome = ParseOutcome(p_record, p_ignore).val
        /\ (~p_ignore /\ OutcomeUnusable(p_record)) =>
               p_result.exc = ReactionParserError


\* The identifiers of the four published maps of a WF3Data.
PublishedIdentifiers(data) ==
    DOMAIN data.organic \cup DOMAIN data.inorganic \cup DOMAIN data.solvent
        \cup DOMAIN data.acid

\* C20 (as stated): the mole-map path ranges over the identifiers of the
\* mole map: the published maps hold the mole map's identifiers without the
\* antisolvent's, each with mole amount / alpha volume, and a constituent
\* that the mole map lacks does not fail the derivation.  The code violates
\* it.
C20_PathARangesOverMoleMap ==
    (/\ wf_pc \in {"returned", "raised"}
     /\ "mmol_data" \in DOMAIN wf_reaction.properties) =>
        LET mmol_data == wf_reaction.properties["mmol_data"]
        IN /\ wf_pc = "returned" =>
                  LET data == wf_result.val
                  IN /\ PublishedIdentifiers(data) =
                            DOMAIN mmol_data \ {data.antisolvent_identity}
                     /\ \A category \in {"organic", "inorganic", "solvent", "acid"} :
                            \A inchikey \in DOMAIN data[category] :
                                data[category][inchikey] =
                                    RDiv(RMul(mmol_data[inchikey], Float_1e_3),
                                         data.alpha_vial_volume)
           /\ wf_pc = "raised" =>
                  ~(/\ wf_result.exc = KeyError
                    /\ DOMAIN inchikey_to_material(wf_reaction) \ DOMAIN mmol_data # {})


\* Both paths compute a molarity for every identifier of the reaction: it
\* is a protocol-3 reaction with one antisolvent, every reagent was added
\* and prepared in a positive volume, and the mole map holds every
\* constituent's identifier.
BothPathsCompute(reaction) ==
    /\ is_wf3(reaction)
    /\ Cardinality(possible_antisolvents(reaction)) = 1
    /\ "mmol_data" \in DOMAIN reaction.properties
    /\ DOMAIN inchikey_to_material(reaction) \subseteq DOMAIN reaction.properties["mmol_data"]
    /\ \A i \in DOMAIN reaction.reagent_table :
           /\ RGt(reaction.reagent_table[i].volume_added, RZero)
           /\ RGt(volume_sum(reaction.reagent_table[i]), RZero)

\* C21 (as stated): the published molarities are those of the mole map
\* (mole amount / alpha volume, the antisolvent's identifier removed)
\* whatever the reagents give: a difference of the two paths, a molarity of
\* zero from the reagents included, never aborts the derivation.  The code
\* violates it.
C21_MoleMapPublished ==
    (wf_pc \in {"returned", "raised"} /\ BothPathsCompute(wf_reaction)) =>
        /\ wf_pc = "returned"
        /\ LET data == wf_result.val
               mmol_data == wf_reaction.properties["mmol_data"]
           IN /\ PublishedIdentifiers(data) =
                     DOMAIN inchikey_to_material(wf_reaction) \ {data.antisolvent_identity}
              /\ \A category \in {"organic", "inorganic", "solvent", "acid"} :
                     \A inchikey \in DOMAIN data[category] :
                         data[category][inchikey] =
                             RDiv(RMul(mmol_data[inchikey], Float_1e_3),
                                  data.alpha_vial_volume)


\* C22: the representative of a header group is a member with the most
\* keys in its identifier-category map, and among the members with the
\* most keys the first in the order of the reactions given to the stage.
C22_RepresentativeFirstOfLargest ==
    \A n \in DOMAIN st_representatives :
        LET input == st_orderings[st_run]
            chosen == st_representatives[n]
            at == CHOOSE i \in DOMAIN input : input[i].identifier = chosen.identifier
            same_group(i) ==
                /\ input[i].experiment_version = chosen.experiment_version
                /\ experiment_header(input[i].identifier)
                       = experiment_header(chosen.identifier)
        IN /\ \E i \in DOMAIN input : input[i] = chosen
           /\ \A i \in DOMAIN input :
                  same_group(i) => Cardinality(CategoryKeys(input[i]))
                                       <= Cardinality(CategoryKeys(chosen))
           /\ \A i \in 1..(at - 1) :
                  same_group(i) => Cardinality(CategoryKeys(input[i]))
                                       < Cardinality(CategoryKeys(chosen))

\* Two reactions of one header group have the most keys, and the stage
\* took the one that is first in the order it was given, which is not the
\* one with the smaller identifier.
C22_Witness ==
    /\ st_run = 2
    /\ \E n \in DOMAIN st_representatives :
           /\ st_representatives[n].identifier = StageIdentifier(3)
           /\ \E i \in DOMAIN st_orderings[2] :
                  /\ st_orderings[2][i].identifier = StageIdentifier(2)
                  /\ Cardinality(CategoryKeys(st_orderings[2][i]))
                         = Cardinality(CategoryKeys(st_representatives[n]))

\* The header group the stage visits next has a member whose category keys
\* are not among those of the group's representative.
NextGroupNotDominated ==
    /\ st_pc = "loop"
    /\ st_done < Len(HeaderGroups(st_orderings[st_run]))
    /\ LET header_group == HeaderGroups(st_orderings[st_run])[st_done + 1].header_group
       IN \E n \in DOMAIN header_group :
              ~(CategoryKeys(header_group[n])
                    \subseteq CategoryKeys(representative(header_group)))

\* C23: when a member of a header group has category keys that are not
\* among the representative's, the stage raises ValueError for the group:
\* no identifier is added to a bucket and the sampling space is unchanged.
C23_NotDominatedRaises ==
    [][NextGroupNotDominated =>
          /\ st_pc' = "raised"
          /\ st_exc' = ValueError
          /\ st_GroupDict' = st_GroupDict
          /\ st_ConvexHull' = st_ConvexHull]_vars

\* The stage raised ValueError for the second header group it visited,
\* with the first group in a bucket and in the sampling space.
C23_Witness ==
    /\ st_pc = "raised"
    /\ st_exc = ValueError
    /\ st_done = 2
    /\ DOMAIN st_GroupDict # {}
    /\ st_ConvexHull # NoHull


\* The reagents of the reactions of the first header group visited that
\* are not a single material with the antisolvent's identifier.
AllButAntisolventReagent ==
    LET chosen == st_representatives[1]
        antisolvent_identity == from_reaction(chosen).val.antisolvent_identity
        header_group ==
            {r \in Range(st_orderings[st_run]) :
                /\ r.experiment_version = chosen.experiment_version
                /\ experiment_header(r.identifier) = experiment_header(chosen.identifier)}
    IN {reagent \in UNION {Range(r.reagent_table) : r \in header_group} :
           ~(/\ DOMAIN reagent.reagent_material_table = {0}
             /\ reagent.reagent_material_table[0].material.inchikey
                    = antisolvent_identity)}

\* C24 (as stated): the sampling space of a header group holds the
\* molarities of all reagents of the group's reactions but the antisolvent
\* reagent: a reagent is left out exactly when it is a single material with
\* the antisolvent's identifier.  The code violates it.
C24_OnlyAntisolventReagentLeftOut ==
    (st_pc = "loop" /\ st_done = 1) =>
        LET sch == st_ConvexHull[1]
        IN /\ Range(sch.columns) =
                  UNION {DOMAIN molarity_table(reagent).val :
                             reagent \in AllButAntisolventReagent}
           /\ C10_Projected(sch, sch.columns) =
                  {[c \in Range(sch.columns) |->
                       IF c \in DOMAIN molarity_table(reagent).val
                       THEN molarity_table(reagent).val[c] ELSE RZero] :
                      reagent \in AllButAntisolventReagent}


\* The stage has visited every header group without an exception.
StageCompleted ==
    /\ st_pc = "loop"
    /\ st_done >= 1
    /\ st_done = Len(HeaderGroups(st_orderings[st_run]))

\* The places of GroupDict that hold the identifier.
BucketPlaces(identifier) ==
    {<<group_key, n>> \in (DOMAIN st_GroupDict) \X (1..(NumValid + 1)) :
        /\ n \in DOMAIN st_GroupDict[group_key]
        /\ st_GroupDict[group_key][n] = identifier}

\* C25: when the stage has completed, the identifier of every valid
\* reaction is in exactly one bucket, once, the buckets hold nothing else,
\* and the members of a header group are in the bucket keyed by their
\* version and the fingerprint of their representative.
C25_BucketsPartition ==
    StageCompleted =>
        LET input == st_orderings[st_run]
        IN /\ \A i \in DOMAIN input :
                  Cardinality(BucketPlaces(input[i].identifier)) = 1
           /\ \A group_key \in DOMAIN st_GroupDict :
                  Range(st_GroupDict[group_key])
                      \subseteq {input[i].identifier : i \in DOMAIN input}
           /\ \A n \in DOMAIN st_representatives :
                  LET chosen == st_representatives[n]
                      group_key == GroupKey(chosen.experiment_version,
                                            from_reaction(chosen).val)
                  IN \A i \in DOMAIN input :
                         (/\ input[i].experiment_version = chosen.experiment_version
                          /\ experiment_header(input[i].identifier)
                                 = experiment_header(chosen.identifier)) =>
                             /\ group_key \in DOMAIN st_GroupDict
                             /\ input[i].identifier \in Range(st_GroupDict[group_key])

\* The stage has completed with the reactions of two header groups in one
\* bucket and a third reaction in another.
C25_Witness ==
    /\ StageCompleted
    /\ st_done = 2
    /\ Cardinality(DOMAIN st_GroupDict) = 1
    /\ \E group_key \in DOMAIN st_GroupDict : Len(st_GroupDict[group_key]) = 3


\* Row i (from 1) of the table has the non-zero identifiers of the
\* molarity table, each with a molarity within eps = 1e-7 of the table's.
RowMatches(table, df_hull, i) ==
    LET mt == drop_zeros(table)
        row == RowDict(df_hull, i)
    IN /\ DOMAIN mt = DOMAIN drop_zeros(row)
       /\ \A k \in DOMAIN mt : ~ExceedsEps(RSub(mt[k], row[k]), 10000000)

\* C26 (as stated): for the stock solutions of the reactions that were
\* checked, get_stock_solution_row_index returns the index of a row that
\* matches the molarity table within eps in either direction, and raises
\* when no row matches.  The code violates it.
C26_IndexOfMatchingRow ==
    \A n \in DOMAIN vf_log :
        \A reagent \in Range(ReagentValues(vf_reactions[n])) :
            LET table == molarity_table(reagent)
                index == get_stock_solution_row_index(table.val, vf_hull)
            IN (table.exc = None /\ ~is_reagent_antisolvent(table.val)) =>
                   IF index.exc = None
                   THEN RowMatches(table.val, vf_hull, index.val + 1)
                   ELSE ~\E i \in DOMAIN vf_hull.rows : RowMatches(table.val, vf_hull, i)


\* C27 (as stated): reagents that compare equal have the same hash, and
\* the set of the reagents of a reaction holds no two members that compare
\* equal.  The code violates it.
C27_HashConsistentWithEq ==
    rs_pc = "returned" =>
        /\ \A i, j \in DOMAIN rs_reagents :
               reagent_eq(rs_reagents[i], rs_reagents[j]) =>
                   reagent_hash(rs_reagents[i]) = reagent_hash(rs_reagents[j])
        /\ \A m, n \in DOMAIN rs_set :
               m # n => ~reagent_eq(rs_set[m], rs_set[n])

====
